---- MODULE Spec2Model ----
(***************************************************************************)
(* SADE agent architecture visualizer (src/gui.py): the diagram model, the *)
(* five tab builders, the tab widget and the window's load / clear / click *)
(* handlers, as a state machine over the window's view state.              *)
(*                                                                         *)
(* Conventions.  A JSON value, as json.loads returns it, is a record       *)
(* [t |-> kind, v |-> payload]: kind "str", "num", "bool", "null" carry a  *)
(* string payload, "list" a sequence of values, "obj" a function from key  *)
(* strings to values.  HTML text is a sequence of string tokens in the     *)
(* order the f-strings of the source emit them; style attributes that do   *)
(* not vary are folded into the tag token.  A Python call that can raise   *)
(* returns [raised |-> BOOLEAN, html |-> tokens].                          *)
(***************************************************************************)
EXTENDS Integers, Sequences, FiniteSets, TLC

\* ------------------------------------------------------------------ bounds

\* Longest free-text header (in lexemes) put before the JSON object.
MaxHeaderLen == 1
\* The pointer is tried at GridSteps+1 columns across the width of the diagram.
GridSteps == 3
\* Most keys removed at once from the complete record.
MaxAbsent == 1
\* Lines are clipped between points with coordinates up to 7^MaxPow.
MaxPow == 2

\* ------------------------------------------------------------- JSON values

Str(s)  == [t |-> "str",  v |-> s]
Num(s)  == [t |-> "num",  v |-> s]
Bool(b) == [t |-> "bool", v |-> IF b THEN "true" ELSE "false"]
Null    == [t |-> "null", v |-> ""]
List(q) == [t |-> "list", v |-> q]
Obj(f)  == [t |-> "obj",  v |-> f]
EmptyObj == Obj([k \in {} |-> Null])

IsObj(x) == x.t = "obj"
IsStr(x) == x.t = "str"

\* dict with key k set to x (a later duplicate key overrides an earlier one)
Put(o, k, x) == Obj([y \in DOMAIN o.v \cup {k} |-> IF y = k THEN x ELSE o.v[y]])
\* dict without key k
Del(o, k) == Obj([y \in DOMAIN o.v \ {k} |-> o.v[y]])

\* dict.get(k, d).  On a value that is no dict Python raises AttributeError:
\* every caller tests IsObj first and raises.
dict_get(o, k, d) == IF IsObj(o) /\ k \in DOMAIN o.v THEN o.v[k] ELSE d

\* Python truthiness of a decoded JSON value.
Truthy(x) ==
    CASE x.t = "str"  -> x.v # ""
      [] x.t = "num"  -> x.v \notin {"0", "-0", "0.0"}
      [] x.t = "bool" -> x.v = "true"
      [] x.t = "null" -> FALSE
      [] x.t = "list" -> Len(x.v) > 0
      [] x.t = "obj"  -> DOMAIN x.v # {}

\* The keys the model's records use, in the order they are written.
KeyOrder == <<
    "decision", "visibility",
    "type", "sade_message", "constraints", "actions", "denial_code", "explanation",
    "entry_request", "environment_agent", "reputation_agent", "claims_agent", "rule_trace",
    "sade_zone_id", "zone_id", "pilot_id", "organization_id", "org_id", "drone_id",
    "payload", "requested_entry_time", "request_type",
    "manufacturer_fc", "raw_conditions", "risk_assessment", "spatial_constraints",
    "manufacturer", "model", "category", "mfc_payload_max_kg", "mfc_max_wind_kt",
    "wind", "wind_gust", "precipitation", "light_conditions", "airspace_class",
    "risk_level", "blocking_factors", "marginal_factors", "confidence_factors",
    "recommendation_wind", "recommendation_payload",
    "constraint_suggestions_wind", "constraint_suggestions_payload",
    "recommendation_prose_wind", "recommendation_prose_payload",
    "why_prose_wind", "why_prose_payload",
    "incident_analysis", "incidents", "total_incidents", "recent_incidents_count",
    "unresolved_incidents_present", "drp_sessions_count", "demo_steady_max_kt",
    "demo_gust_max_kt", "n_0100_0101", "recommendation", "recommendation_prose", "why_prose",
    "incident_code", "incident_category", "incident_subcategory", "severity", "resolved", "date",
    "called", "satisfied", "resolved_incident_prefixes", "unresolved_incident_prefixes",
    "satisfied_actions", "unsatisfied_actions" >>

\* The keys of a dict in that order.
KeysOf(o) == SelectSeq(KeyOrder, LAMBDA k : k \in DOMAIN o.v)

RECURSIVE Flatten(_)
Flatten(ss) == IF ss = <<>> THEN <<>> ELSE Head(ss) \o Flatten(Tail(ss))

RECURSIVE JoinStr(_, _)
JoinStr(ss, sep) ==
    IF ss = <<>> THEN ""
    ELSE IF Len(ss) = 1 THEN ss[1]
    ELSE ss[1] \o sep \o JoinStr(Tail(ss), sep)

\* str(x) / format(x) of a decoded JSON value, and repr(x) inside containers.
RECURSIVE PyRepr(_)
PyRepr(x) ==
    CASE x.t = "str"  -> "'" \o x.v \o "'"
      [] x.t = "num"  -> x.v
      [] x.t = "bool" -> IF x.v = "true" THEN "True" ELSE "False"
      [] x.t = "null" -> "None"
      [] x.t = "list" -> "[" \o JoinStr([i \in 1..Len(x.v) |-> PyRepr(x.v[i])], ", ") \o "]"
      [] x.t = "obj"  ->
            LET ks == KeysOf(x)
            IN "{" \o JoinStr([i \in 1..Len(ks) |->
                                 "'" \o ks[i] \o "': " \o PyRepr(x.v[ks[i]])], ", ") \o "}"

PyStr(x) == IF x.t = "str" THEN x.v ELSE PyRepr(x)

\* str.upper() on the strings the model's records carry.
Upper(s) ==
    CASE s = "low"    -> "LOW"
      [] s = "Medium" -> "MEDIUM"
      [] s = "high"   -> "HIGH"
      [] OTHER        -> s

\* The characters of a string, for the strings the records put where a list is
\* expected (iterating a str yields its characters).
Chars(s) ==
    CASE s = "no" -> <<"n", "o">>
      [] s = ""   -> <<>>
      [] OTHER    -> <<s>>

\* What `for item in x` yields; int, bool and None are not iterable (TypeError).
Iterable(x) == x.t \in {"list", "obj", "str"}
Iter(x) ==
    CASE x.t = "list" -> x.v
      [] x.t = "obj"  -> [i \in 1..Len(KeysOf(x)) |-> Str(KeysOf(x)[i])]
      [] x.t = "str"  -> [i \in 1..Len(Chars(x.v)) |-> Str(Chars(x.v)[i])]
      [] OTHER        -> <<>>

\* ------------------------------------------------------------------ palette

PANEL_BG    == "#161B22"
CARD_BG     == "#21262D"
BORDER      == "#30363D"
TXT_HI      == "#E6EDF3"
TXT_MED     == "#8B949E"
TXT_LO      == "#484F58"
ACCENT      == "#58A6FF"

C_ORCHSTR   == "#7C4DFF"
C_ENTRY     == "#29B6F6"
C_ENV       == "#26A69A"
C_REP       == "#FF7043"
C_CLAIMS    == "#42A5F5"
C_DECISION  == "#9E9E9E"

C_APPROVED  == "#3FB950"
C_APPROVEDC == "#E3B341"
C_ACTION    == "#58A6FF"
C_DENIED    == "#F85149"
C_UNKNOWN   == "#6E7681"

\* The em dash the builders show for an absent field, the bullet of a list item.
DASH   == "--"
BULLET == "*"

\* ------------------------------------------------------------------ helpers

\* A dict lookup hashes its key: a list or a dict key raises TypeError.
Hashable(x) == x.t \notin {"list", "obj"}

decision_color_raises(dtype) == ~Hashable(dtype)

\* A variant that tells the types apart by their first word only.
decision_color_first_word(dtype) ==
    IF ~IsStr(dtype) THEN C_UNKNOWN
    ELSE CASE dtype.v \in {"APPROVED", "APPROVED-CONSTRAINTS"} -> C_APPROVED
           [] dtype.v = "ACTION-REQUIRED"                      -> C_ACTION
           [] dtype.v = "DENIED"                               -> C_DENIED
           [] OTHER                                            -> C_UNKNOWN

decision_color(dtype) ==
    IF ~IsStr(dtype) THEN C_UNKNOWN
    ELSE CASE dtype.v = "APPROVED"             -> C_APPROVED
           [] dtype.v = "APPROVED-CONSTRAINTS" -> C_APPROVEDC
           [] dtype.v = "ACTION-REQUIRED"      -> C_ACTION
           [] dtype.v = "DENIED"               -> C_DENIED
           [] OTHER                            -> C_UNKNOWN

\* level.upper() is evaluated only when level is truthy; a truthy value that is
\* no str has no upper() (AttributeError).
risk_color_raises(level) == Truthy(level) /\ ~IsStr(level)

risk_color(level) ==
    LET key == IF Truthy(level) /\ IsStr(level) THEN Upper(level.v) ELSE ""
    IN CASE key = "LOW"    -> C_APPROVED
         [] key = "MEDIUM" -> C_APPROVEDC
         [] key = "HIGH"   -> C_DENIED
         [] OTHER          -> C_UNKNOWN

_badge_html(text, color) ==
    << "<span badge background:" \o color \o ">", text, "</span>" >>

NoBadges == [k \in {} |-> ""]

\* rows is a sequence of <<key, text>>, badge_map a function from keys to colors.
_section_html(title, rows, badge_map) ==
    << "<div section>", "<div title color:" \o ACCENT \o ">", title, "</div>" >>
    \o Flatten([i \in 1..Len(rows) |->
            << "<div row>", "<span key color:" \o TXT_MED \o ">", rows[i][1], "</span>" >>
            \o (IF rows[i][1] \in DOMAIN badge_map
                THEN _badge_html(rows[i][2], badge_map[rows[i][1]])
                ELSE << "<span color:" \o TXT_HI \o ">", rows[i][2], "</span>" >>)
            \o << "</div>" >>])
    \o << "</div>" >>

_list_html_raises(items) == Truthy(items) /\ ~Iterable(items)

_list_html(title, items, color) ==
    IF ~Truthy(items) THEN _section_html(title, << <<"(none)", "">> >>, NoBadges)
    ELSE << "<div section>", "<div title color:" \o ACCENT \o ">", title, "</div>" >>
         \o Flatten([i \in 1..Len(Iter(items)) |->
                << "<div item color:" \o color \o ">", BULLET, PyStr(Iter(items)[i]), "</div>" >>])
         \o << "</div>" >>

_prose_html(title, text) ==
    IF ~Truthy(text) THEN <<>>
    ELSE << "<div section>", "<div title color:" \o ACCENT \o ">", title, "</div>",
            "<div prose color:" \o TXT_HI \o ">", PyStr(text), "</div>", "</div>" >>

_hr == << "<hr border-top:" \o BORDER \o ">" >>

_wrap(inner) ==
    << "<html><body background:" \o CARD_BG \o ">" >> \o inner \o << "</body></html>" >>

Ok(html) == [raised |-> FALSE, html |-> html]
Raise    == [raised |-> TRUE,  html |-> <<>>]

\* ------------------------------------------------------ tab content builders

\* A variant: data.get(k), which gives None for an absent key.
get_obj_nodefault(o, k) == dict_get(o, k, Null)

\* data.get(k, {}) with the dict default of the builders
get_obj(o, k) == dict_get(o, k, EmptyObj)
\* f"{o.get(k, '--')}" and str(o.get(k, '--'))
get_text(o, k) == PyStr(dict_get(o, k, Str(DASH)))
\* str(o.get(k, 0))
get_count(o, k) == PyStr(dict_get(o, k, Num("0")))
\* o.get(k, ""), o.get(k, []), o.get(k)
get_str(o, k)  == dict_get(o, k, Str(""))
get_list(o, k) == dict_get(o, k, List(<<>>))
get_none(o, k) == dict_get(o, k, Null)

build_entry_tab(data) ==
    LET vis == get_obj(data, "visibility")
        er  == get_obj(vis, "entry_request")
        rows == << <<"Zone ID",      get_text(er, "sade_zone_id")>>,
                   <<"Pilot ID",     get_text(er, "pilot_id")>>,
                   <<"Organization", get_text(er, "organization_id")>>,
                   <<"Drone ID",     get_text(er, "drone_id")>>,
                   <<"Payload (kg)", get_text(er, "payload")>>,
                   <<"Entry Time",   get_text(er, "requested_entry_time")>>,
                   <<"Request Type", get_text(er, "request_type")>> >>
    IN IF ~IsObj(vis) \/ ~IsObj(er) THEN Raise
       ELSE Ok(_wrap(_section_html("Entry Request", rows, NoBadges)))

NoEnvData == _wrap(<< "<i>No environment agent data.</i>" >>)

build_env_tab(data) ==
    LET vis  == get_obj(data, "visibility")
        env  == get_obj(vis, "environment_agent")
        mfc  == get_obj(env, "manufacturer_fc")
        raw  == get_obj(env, "raw_conditions")
        risk == get_obj(env, "risk_assessment")
        sc   == get_obj(raw, "spatial_constraints")
        mfc_rows == << <<"Manufacturer", get_text(mfc, "manufacturer")>>,
                       <<"Model",        get_text(mfc, "model")>>,
                       <<"Category",     get_text(mfc, "category")>>,
                       <<"Max Payload",  get_text(mfc, "mfc_payload_max_kg") \o " kg">>,
                       <<"Max Wind",     get_text(mfc, "mfc_max_wind_kt") \o " kt">> >>
        cond_rows == << <<"Wind Speed",     get_text(raw, "wind") \o " kt">>,
                        <<"Wind Gust",      get_text(raw, "wind_gust") \o " kt">>,
                        <<"Precipitation",  get_text(raw, "precipitation")>>,
                        <<"Visibility",     get_text(raw, "visibility") \o " km">>,
                        <<"Light",          get_text(raw, "light_conditions")>>,
                        <<"Airspace Class", get_text(sc, "airspace_class")>> >>
        rl == get_str(risk, "risk_level")
        risk_rows == << <<"Overall Risk", PyStr(rl)>>,
                        <<"Wind Risk",    get_text(env, "recommendation_wind")>>,
                        <<"Payload Risk", get_text(env, "recommendation_payload")>> >>
        badge_map == [k \in {"Overall Risk", "Wind Risk", "Payload Risk"} |->
                        CASE k = "Overall Risk" -> risk_color(rl)
                          [] k = "Wind Risk"    -> risk_color(get_str(env, "recommendation_wind"))
                          [] k = "Payload Risk" -> risk_color(get_str(env, "recommendation_payload"))]
        html == _section_html("Manufacturer Flight Constraints", mfc_rows, NoBadges)
                \o _hr
                \o _section_html("Environmental Conditions", cond_rows, NoBadges)
                \o _hr
                \o _section_html("Risk Assessment", risk_rows, badge_map)
                \o _hr
                \o _list_html("Blocking Factors", get_list(risk, "blocking_factors"), C_DENIED)
                \o _list_html("Marginal Factors", get_list(risk, "marginal_factors"), C_APPROVEDC)
                \o _list_html("Wind Constraints Suggested",
                              get_list(env, "constraint_suggestions_wind"), TXT_HI)
                \o _list_html("Payload Constraints Suggested",
                              get_list(env, "constraint_suggestions_payload"), TXT_HI)
                \o _prose_html("Wind Recommendation", get_str(env, "recommendation_prose_wind"))
                \o _prose_html("Payload Recommendation", get_str(env, "recommendation_prose_payload"))
                \o _prose_html("Wind Analysis", get_str(env, "why_prose_wind"))
                \o _prose_html("Payload Analysis", get_str(env, "why_prose_payload"))
    IN IF ~IsObj(vis) THEN Raise
       ELSE IF ~Truthy(env) THEN Ok(NoEnvData)
       ELSE IF ~IsObj(env) \/ ~IsObj(mfc) \/ ~IsObj(raw) \/ ~IsObj(risk) \/ ~IsObj(sc) THEN Raise
       ELSE IF \/ risk_color_raises(rl)
               \/ risk_color_raises(get_str(env, "recommendation_wind"))
               \/ risk_color_raises(get_str(env, "recommendation_payload"))
               \/ _list_html_raises(get_list(risk, "blocking_factors"))
               \/ _list_html_raises(get_list(risk, "marginal_factors"))
               \/ _list_html_raises(get_list(env, "constraint_suggestions_wind"))
               \/ _list_html_raises(get_list(env, "constraint_suggestions_payload"))
            THEN Raise
       ELSE Ok(_wrap(html))

NoRepData == _wrap(<< "<i>No reputation agent data.</i>" >>)

\* One card of the incidents table.
incident_html(inc) ==
    LET sev == get_str(inc, "severity")
        res == Truthy(dict_get(inc, "resolved", Bool(FALSE)))
    IN << "<div card>", "<div card-head>",
          "<span code>", PyStr(get_str(inc, "incident_code")), "</span>" >>
       \o _badge_html(PyStr(sev), risk_color(sev))
       \o << "&nbsp;" >>
       \o _badge_html(IF res THEN "RESOLVED" ELSE "UNRESOLVED",
                      IF res THEN C_APPROVED ELSE C_DENIED)
       \o << "</div>",
             "<div category>", PyStr(get_str(inc, "incident_category")), ">",
             PyStr(get_str(inc, "incident_subcategory")), "</div>",
             "<div date>", PyStr(get_str(inc, "date")), "</div>", "</div>" >>

incident_raises(inc) == ~IsObj(inc) \/ risk_color_raises(get_str(inc, "severity"))

build_rep_tab(data) ==
    LET vis  == get_obj(data, "visibility")
        rep  == get_obj(vis, "reputation_agent")
        ia   == get_obj(rep, "incident_analysis")
        risk == get_obj(rep, "risk_assessment")
        rl   == get_str(risk, "risk_level")
        incidents == get_list(ia, "incidents")
        summary_rows ==
            << <<"Total Incidents",    get_count(ia, "total_incidents")>>,
               <<"Recent Incidents",   get_count(ia, "recent_incidents_count")>>,
               <<"Unresolved Present",
                 IF Truthy(get_none(ia, "unresolved_incidents_present")) THEN "Yes" ELSE "No">>,
               <<"DRP Sessions",       get_count(rep, "drp_sessions_count")>>,
               <<"Demo Steady Max",    get_count(rep, "demo_steady_max_kt") \o " kt">>,
               <<"Demo Gust Max",      get_count(rep, "demo_gust_max_kt") \o " kt">>,
               <<"n_0100_0101",        get_count(rep, "n_0100_0101")>> >>
        risk_rows == << <<"Risk Level",     PyStr(rl)>>,
                        <<"Recommendation", get_text(rep, "recommendation")>> >>
        badge_map == [k \in {"Risk Level", "Recommendation"} |->
                        IF k = "Risk Level" THEN risk_color(rl)
                        ELSE risk_color(get_str(rep, "recommendation"))]
        table == IF ~Truthy(incidents) THEN <<>>
                 ELSE << "<div title color:" \o ACCENT \o ">", "Incidents", "</div>" >>
                      \o Flatten([i \in 1..Len(Iter(incidents)) |->
                                     incident_html(Iter(incidents)[i])])
                      \o _hr
        html == _section_html("Reputation Summary", summary_rows, NoBadges)
                \o _hr
                \o _section_html("Risk Assessment", risk_rows, badge_map)
                \o _hr
                \o _list_html("Blocking Factors", get_list(risk, "blocking_factors"), C_DENIED)
                \o _list_html("Confidence Factors", get_list(risk, "confidence_factors"), C_APPROVED)
                \o _hr
                \o table
                \o _prose_html("Recommendation", get_str(rep, "recommendation_prose"))
                \o _prose_html("Why", get_str(rep, "why_prose"))
    IN IF ~IsObj(vis) THEN Raise
       ELSE IF ~Truthy(rep) THEN Ok(NoRepData)
       ELSE IF ~IsObj(rep) \/ ~IsObj(risk) \/ ~IsObj(ia) THEN Raise
       ELSE IF \/ risk_color_raises(rl)
               \/ risk_color_raises(get_str(rep, "recommendation"))
               \/ _list_html_raises(get_list(risk, "blocking_factors"))
               \/ _list_html_raises(get_list(risk, "confidence_factors"))
               \/ (Truthy(incidents) /\ ~Iterable(incidents))
               \/ \E i \in 1..Len(Iter(incidents)) : incident_raises(Iter(incidents)[i])
            THEN Raise
       ELSE Ok(_wrap(html))

NoClaimsData == _wrap(<< "<i>No claims agent data.</i>" >>)

ClaimsNotCalled ==
    _wrap(<< "<div center>", "<div dash color:" \o TXT_LO \o ">", DASH, "</div>",
             "<div note color:" \o TXT_MED \o ">",
             "Claims Agent was not called for this request.", "</div>", "</div>" >>)

\* build_claims_tab once the section is known to be called: its sections, and
\* whether building them raises.
claims_called_html(ca) ==
    LET satisfied == Truthy(dict_get(ca, "satisfied", Bool(FALSE)))
        rows == << <<"Called", "Yes">>,
                   <<"Satisfied", IF satisfied THEN "Yes" ELSE "No">> >>
        badge_map == [k \in {"Called", "Satisfied"} |->
                        IF k = "Called" THEN ACCENT
                        ELSE IF satisfied THEN C_APPROVED ELSE C_DENIED]
    IN _section_html("Status", rows, badge_map)
       \o _hr
       \o _list_html("Resolved Incident Prefixes",
                     get_list(ca, "resolved_incident_prefixes"), C_APPROVED)
       \o _list_html("Unresolved Incident Prefixes",
                     get_list(ca, "unresolved_incident_prefixes"), C_DENIED)
       \o _list_html("Satisfied Actions", get_list(ca, "satisfied_actions"), C_APPROVED)
       \o _list_html("Unsatisfied Actions", get_list(ca, "unsatisfied_actions"), C_DENIED)
       \o _prose_html("Recommendation", get_str(ca, "recommendation_prose"))
       \o _prose_html("Why", get_str(ca, "why_prose"))

claims_called_raises(ca) ==
    \/ _list_html_raises(get_list(ca, "resolved_incident_prefixes"))
    \/ _list_html_raises(get_list(ca, "unresolved_incident_prefixes"))
    \/ _list_html_raises(get_list(ca, "satisfied_actions"))
    \/ _list_html_raises(get_list(ca, "unsatisfied_actions"))

\* A variant that shows the placeholder only when the section has no called
\* key, and reads called for the badge instead.
build_claims_tab_absent_only(data) ==
    LET vis == get_obj(data, "visibility")
        ca  == get_obj(vis, "claims_agent")
    IN IF ~IsObj(vis) THEN Raise
       ELSE IF ~Truthy(ca) THEN Ok(NoClaimsData)
       ELSE IF ~IsObj(ca) THEN Raise
       ELSE IF "called" \notin DOMAIN ca.v THEN Ok(ClaimsNotCalled)
       ELSE IF claims_called_raises(ca) THEN Raise
       ELSE Ok(_wrap(claims_called_html(ca)))

build_claims_tab(data) ==
    LET vis == get_obj(data, "visibility")
        ca  == get_obj(vis, "claims_agent")
        called == dict_get(ca, "called", Bool(FALSE))
    IN IF ~IsObj(vis) THEN Raise
       ELSE IF ~Truthy(ca) THEN Ok(NoClaimsData)
       ELSE IF ~IsObj(ca) THEN Raise
       ELSE IF ~Truthy(called) THEN Ok(ClaimsNotCalled)
       ELSE IF claims_called_raises(ca) THEN Raise
       ELSE Ok(_wrap(claims_called_html(ca)))

\* A variant that shows the section whenever the key is there.
denial_section_if_present(dec) ==
    IF "denial_code" \in DOMAIN dec.v
    THEN _section_html("Denial", << <<"Code", PyStr(get_none(dec, "denial_code"))>> >>,
                       [k \in {"Code"} |-> C_DENIED])
    ELSE <<>>

\* if dec.get("denial_code"): the Denial section of build_decision_tab.
denial_section(dec) ==
    IF Truthy(get_none(dec, "denial_code"))
    THEN _section_html("Denial", << <<"Code", PyStr(get_none(dec, "denial_code"))>> >>,
                       [k \in {"Code"} |-> C_DENIED])
    ELSE <<>>

build_decision_tab(data) ==
    LET dec   == get_obj(data, "decision")
        dtype == dict_get(dec, "type", Str("UNKNOWN"))
        dc    == decision_color(dtype)
        vis   == get_obj(data, "visibility")
        trace == get_list(vis, "rule_trace")
        header == << "<div header>", "<div type color:" \o dc \o ">", PyStr(dtype),
                     "</div>", "</div>" >>
        msg_html == << "<div message border-left:" \o dc \o ">",
                       PyStr(get_str(dec, "sade_message")), "</div>" >>
        html == header \o msg_html
                \o (IF Truthy(get_none(dec, "constraints"))
                    THEN _list_html("Constraints", get_none(dec, "constraints"), C_APPROVEDC)
                    ELSE <<>>)
                \o (IF Truthy(get_none(dec, "actions"))
                    THEN _list_html("Actions Required", get_none(dec, "actions"), C_ACTION)
                    ELSE <<>>)
                \o denial_section(dec)
                \o _prose_html("Explanation", get_str(dec, "explanation"))
                \o (IF Truthy(trace) THEN _hr \o _list_html("Rule Trace", trace, ACCENT)
                    ELSE <<>>)
    IN IF ~IsObj(dec) \/ decision_color_raises(dtype) \/ ~IsObj(vis) THEN Raise
       ELSE IF \/ _list_html_raises(get_none(dec, "constraints"))
               \/ _list_html_raises(get_none(dec, "actions"))
               \/ _list_html_raises(trace)
            THEN Raise
       ELSE Ok(_wrap(html))

\* TAB_BUILDERS[i], i the tab index 0..4.
TAB_BUILDERS(i, data) ==
    CASE i = 0 -> build_entry_tab(data)
      [] i = 1 -> build_env_tab(data)
      [] i = 2 -> build_rep_tab(data)
      [] i = 3 -> build_claims_tab(data)
      [] i = 4 -> build_decision_tab(data)

\* ------------------------------------------------------------ diagram model

\* Iteration order of self.nodes (a dict built from NODES_DEF in list order).
NodeIds == << "entry", "orch", "env", "rep", "claims", "decision" >>
NodeSet == { NodeIds[i] : i \in 1..Len(NodeIds) }

\* Relative centre and half-extent in thousandths of the widget's width / height.
NODES_DEF ==
    [ entry    |-> [rx |-> 500, ry |->  70, rw |-> 260, rh |-> 55, color |-> C_ENTRY,    tab_idx |-> 0],
      orch     |-> [rx |-> 500, ry |-> 260, rw |-> 300, rh |-> 72, color |-> C_ORCHSTR,  tab_idx |-> -1],
      env      |-> [rx |-> 170, ry |-> 580, rw |-> 220, rh |-> 60, color |-> C_ENV,      tab_idx |-> 1],
      rep      |-> [rx |-> 500, ry |-> 580, rw |-> 220, rh |-> 60, color |-> C_REP,      tab_idx |-> 2],
      claims   |-> [rx |-> 830, ry |-> 580, rw |-> 220, rh |-> 60, color |-> C_CLAIMS,   tab_idx |-> 3],
      decision |-> [rx |-> 500, ry |-> 880, rw |-> 300, rh |-> 65, color |-> C_DECISION, tab_idx |-> 4] ]

\* _Node.__init__: a node starts inactive, with no status, in its own color.
NewNodes == [n \in NodeSet |-> [active |-> FALSE, status |-> Str(""), color |-> NODES_DEF[n].color]]

\* A variant that sets the status of the decision node and not its color.
Diagram_load_result_no_color(ns, data) ==
    LET dec == get_obj(data, "decision")
        decision_type == dict_get(dec, "type", Str(""))
        lit == [n \in NodeSet |-> [ns[n] EXCEPT !.active = TRUE, !.status = Str("")]]
        labelled == [lit EXCEPT !["decision"].status = decision_type]
        vis == get_obj(data, "visibility")
        ca  == get_obj(vis, "claims_agent")
        claims_called == dict_get(ca, "called", Bool(FALSE))
    IN IF ~IsObj(dec) THEN [raised |-> TRUE, nodes |-> ns]
       ELSE IF ~IsObj(vis) \/ ~IsObj(ca) THEN [raised |-> TRUE, nodes |-> labelled]
       ELSE [raised |-> FALSE,
             nodes  |-> [labelled EXCEPT !["claims"].active = Truthy(claims_called)]]

\* A variant that lights the claims node when called is set and never puts
\* it out again.
Diagram_load_result_sticky(ns, data) ==
    LET dec == get_obj(data, "decision")
        decision_type == dict_get(dec, "type", Str(""))
        lit == [n \in NodeSet |->
                  [ns[n] EXCEPT !.active = (n # "claims" \/ ns[n].active), !.status = Str("")]]
        colored == [lit EXCEPT !["decision"].color  = decision_color(decision_type),
                               !["decision"].status = decision_type]
        vis == get_obj(data, "visibility")
        ca  == get_obj(vis, "claims_agent")
        claims_called == dict_get(ca, "called", Bool(FALSE))
    IN IF ~IsObj(dec) THEN [raised |-> TRUE, nodes |-> ns]
       ELSE IF decision_color_raises(decision_type) THEN [raised |-> TRUE, nodes |-> lit]
       ELSE IF ~IsObj(vis) \/ ~IsObj(ca) THEN [raised |-> TRUE, nodes |-> colored]
       ELSE [raised |-> FALSE,
             nodes  |-> [colored EXCEPT !["claims"].active =
                                            (ns["claims"].active \/ Truthy(claims_called))]]

\* ArchitectureDiagram.load_result.  The statements run in order and an
\* exception leaves the assignments made before it in place.
Diagram_load_result(ns, data) ==
    LET dec == get_obj(data, "decision")
        decision_type == dict_get(dec, "type", Str(""))
        lit == [n \in NodeSet |-> [ns[n] EXCEPT !.active = TRUE, !.status = Str("")]]
        colored == [lit EXCEPT !["decision"].color  = decision_color(decision_type),
                               !["decision"].status = decision_type]
        vis == get_obj(data, "visibility")
        ca  == get_obj(vis, "claims_agent")
        claims_called == dict_get(ca, "called", Bool(FALSE))
    IN IF ~IsObj(dec) THEN [raised |-> TRUE, nodes |-> ns]
       ELSE IF decision_color_raises(decision_type) THEN [raised |-> TRUE, nodes |-> lit]
       ELSE IF ~IsObj(vis) \/ ~IsObj(ca) THEN [raised |-> TRUE, nodes |-> colored]
       ELSE [raised |-> FALSE,
             nodes  |-> [colored EXCEPT !["claims"].active = Truthy(claims_called)]]

\* A variant whose table is keyed by something other than the node ids, so
\* that every lookup falls through to the default.
ClearColor_unknown(n) == C_UNKNOWN

\* The color table of ArchitectureDiagram.clear.
ClearColor(n) ==
    CASE n = "entry"    -> C_ENTRY
      [] n = "orch"     -> C_ORCHSTR
      [] n = "env"      -> C_ENV
      [] n = "rep"      -> C_REP
      [] n = "claims"   -> C_CLAIMS
      [] n = "decision" -> C_DECISION
      [] OTHER          -> C_UNKNOWN

\* A variant that resets the flags and leaves each node the color it has.
Diagram_clear_keep_color(ns) ==
    [n \in NodeSet |-> [ns[n] EXCEPT !.active = FALSE, !.status = Str("")]]

Diagram_clear(ns) ==
    [n \in NodeSet |-> [active |-> FALSE, status |-> Str(""), color |-> ClearColor(n)]]

\* EDGES: from, to, bidirectional, dashed.
EDGES ==
    << [from |-> "entry", to |-> "orch",     bidir |-> FALSE, dashed |-> FALSE],
       [from |-> "orch",  to |-> "env",      bidir |-> TRUE,  dashed |-> FALSE],
       [from |-> "orch",  to |-> "rep",      bidir |-> TRUE,  dashed |-> FALSE],
       [from |-> "orch",  to |-> "claims",   bidir |-> TRUE,  dashed |-> TRUE],
       [from |-> "orch",  to |-> "decision", bidir |-> FALSE, dashed |-> FALSE] >>

\* The color of a lit edge in _edge_colour.
EDGE_LIT == "#58A6FF"

\* A variant that lights an edge when either end is active.
_edge_colour_either(ns, fid, tid) ==
    IF ns[fid].active \/ ns[tid].active THEN EDGE_LIT ELSE TXT_LO

\* ArchitectureDiagram._edge_colour on the nodes ns.
_edge_colour(ns, fid, tid) ==
    IF ns[fid].active /\ ns[tid].active THEN EDGE_LIT ELSE TXT_LO

\* _draw_edges: the pen color of each edge of EDGES, in order.
_draw_edges(ns) == [e \in 1..Len(EDGES) |-> _edge_colour(ns, EDGES[e].from, EDGES[e].to)]

\* _Node.rect(W, H).contains(p) for the pointer at pixel (x, y); QRectF.contains
\* includes all four edges.  Exact arithmetic in thousandths of a pixel.
InRect(n, W, H, x, y) ==
    LET d == NODES_DEF[n]
    IN /\ (d.rx - d.rw) * W <= 1000 * x /\ 1000 * x <= (d.rx + d.rw) * W
       /\ (d.ry - d.rh) * H <= 1000 * y /\ 1000 * y <= (d.ry + d.rh) * H

\* The place in iteration order of the first node of the set hits, or 0.
FirstNode(hits) ==
    IF \E i \in 1..Len(NodeIds) : NodeIds[i] \in hits
    THEN CHOOSE i \in 1..Len(NodeIds) :
            NodeIds[i] \in hits /\ \A j \in 1..(i - 1) : NodeIds[j] \notin hits
    ELSE 0

\* A variant without the break: the last node under the pointer is hovered.
HoverAt_last(W, H, x, y) ==
    LET under == { i \in 1..Len(NodeIds) : InRect(NodeIds[i], W, H, x, y) }
    IN IF under = {} THEN "none"
       ELSE NodeIds[CHOOSE i \in under : \A j \in under : j <= i]

\* mouseMoveEvent: the new value of _hovered.
HoverAt(W, H, x, y) ==
    LET i == FirstNode({ n \in NodeSet : InRect(n, W, H, x, y) })
    IN IF i = 0 THEN "none" ELSE NodeIds[i]

\* A variant without the return: every node under the pointer that has a
\* panel emits.
RECURSIVE ClickAt_every_from(_, _, _, _, _)
ClickAt_every_from(i, W, H, x, y) ==
    IF i > Len(NodeIds) THEN << >>
    ELSE (IF InRect(NodeIds[i], W, H, x, y) /\ NODES_DEF[NodeIds[i]].tab_idx >= 0
          THEN << NODES_DEF[NodeIds[i]].tab_idx >> ELSE << >>)
         \o ClickAt_every_from(i + 1, W, H, x, y)

ClickAt_every(W, H, x, y) == ClickAt_every_from(1, W, H, x, y)

\* A variant without the test of tab_idx: the first node under the pointer
\* emits its tab_idx, whatever it is.
ClickAt_any(W, H, x, y) ==
    LET i == FirstNode({ n \in NodeSet : InRect(n, W, H, x, y) })
    IN IF i = 0 THEN <<>> ELSE << NODES_DEF[NodeIds[i]].tab_idx >>

\* mousePressEvent with the left button: the tab indices emitted, in order.
ClickAt(W, H, x, y) ==
    LET i == FirstNode({ n \in NodeSet : InRect(n, W, H, x, y) /\ NODES_DEF[n].tab_idx >= 0 })
    IN IF i = 0 THEN <<>> ELSE << NODES_DEF[NodeIds[i]].tab_idx >>

\* ---------------------------------------------------------------- tab widget

Placeholder ==
    _wrap(<< "<div center color:" \o TXT_MED \o ">", "Load a result file to view data.", "</div>" >>)

\* DetailTabs.__init__: five views, each showing the placeholder.
NewViews == [i \in 0..4 |-> Placeholder]

\* The five builders of TAB_BUILDERS applied to data.
BuildAll(data) == [i \in 0..4 |-> TAB_BUILDERS(i, data)]

\* DetailTabs.load_result, built the results of the builders on its data: tab i
\* is set once builder i has returned; the first builder that raises ends the
\* loop and leaves the later tabs as they were.
RECURSIVE Tabs_load_from(_, _, _)
Tabs_load_from(vs, built, i) ==
    IF i > 4 THEN [raised |-> FALSE, at |-> "", views |-> vs]
    ELSE IF built[i].raised THEN [raised |-> TRUE, at |-> "tab" \o ToString(i), views |-> vs]
    ELSE Tabs_load_from([vs EXCEPT ![i] = built[i].html], built, i + 1)

Tabs_load_result(vs, built) == Tabs_load_from(vs, built, 0)

Tabs_clear(vs) == [i \in DOMAIN vs |-> Placeholder]

\* ------------------------------------------------------- raw text and JSON

\* The text of a file is a sequence of lexemes: punctuation, string literals,
\* number literals and bare words (true, false, null, or free text).
P(c)  == [k |-> "p", s |-> c]
SL(x) == [k |-> "s", s |-> x]
NL(x) == [k |-> "n", s |-> x]
W(x)  == [k |-> "w", s |-> x]

\* json.dumps, as the run that writes a result file uses it.
RECURSIVE Dumps(_)
Dumps(x) ==
    CASE x.t = "str"  -> << SL(x.v) >>
      [] x.t = "num"  -> << NL(x.v) >>
      [] x.t = "bool" -> << W(x.v) >>
      [] x.t = "null" -> << W("null") >>
      [] x.t = "list" ->
            << P("[") >>
            \o Flatten([i \in 1..Len(x.v) |->
                          (IF i > 1 THEN << P(",") >> ELSE <<>>) \o Dumps(x.v[i])])
            \o << P("]") >>
      [] x.t = "obj"  ->
            LET ks == KeysOf(x)
            IN << P("{") >>
               \o Flatten([i \in 1..Len(ks) |->
                             (IF i > 1 THEN << P(",") >> ELSE <<>>)
                             \o << SL(ks[i]), P(":") >> \o Dumps(x.v[ks[i]])])
               \o << P("}") >>

\* A variant that decodes from the start of the text when it has a brace.
find_brace_from_start(text) ==
    IF \E i \in 1..Len(text) : text[i] = P("{") THEN 1 ELSE 0

\* text.find("{"): the index of the first '{', or 0 when there is none (-1).
find_brace(text) ==
    IF \E i \in 1..Len(text) : text[i] = P("{")
    THEN CHOOSE i \in 1..Len(text) :
            text[i] = P("{") /\ \A j \in 1..(i - 1) : text[j] # P("{")
    ELSE 0

\* json.loads: a recursive-descent decoder.  A result is [ok, val, pos], pos
\* the index after the value; a failure is the JSONDecodeError.
Fail == [ok |-> FALSE, val |-> Null, pos |-> 0]
Done(v, pos) == [ok |-> TRUE, val |-> v, pos |-> pos]
At(text, i, tok) == i <= Len(text) /\ text[i] = tok

RECURSIVE ParseValue(_, _)
RECURSIVE ParseMembers(_, _, _)
RECURSIVE ParseElems(_, _, _)

ParseValue(text, i) ==
    IF i > Len(text) THEN Fail
    ELSE LET tok == text[i]
         IN CASE tok.k = "s" -> Done(Str(tok.s), i + 1)
              [] tok.k = "n" -> Done(Num(tok.s), i + 1)
              [] tok.k = "w" ->
                    IF tok.s = "true" THEN Done(Bool(TRUE), i + 1)
                    ELSE IF tok.s = "false" THEN Done(Bool(FALSE), i + 1)
                    ELSE IF tok.s = "null" THEN Done(Null, i + 1)
                    ELSE Fail
              [] tok = P("{") ->
                    IF At(text, i + 1, P("}")) THEN Done(EmptyObj, i + 2)
                    ELSE ParseMembers(text, i + 1, EmptyObj)
              [] tok = P("[") ->
                    IF At(text, i + 1, P("]")) THEN Done(List(<<>>), i + 2)
                    ELSE ParseElems(text, i + 1, <<>>)
              [] OTHER -> Fail

\* "key" : value, then ',' and the next member, or '}'.
ParseMembers(text, i, acc) ==
    IF ~(i + 1 <= Len(text) /\ text[i].k = "s" /\ text[i + 1] = P(":")) THEN Fail
    ELSE LET r == ParseValue(text, i + 2)
         IN IF ~r.ok THEN Fail
            ELSE IF At(text, r.pos, P("}")) THEN Done(Put(acc, text[i].s, r.val), r.pos + 1)
            ELSE IF At(text, r.pos, P(",")) THEN
                    ParseMembers(text, r.pos + 1, Put(acc, text[i].s, r.val))
            ELSE Fail

ParseElems(text, i, acc) ==
    LET r == ParseValue(text, i)
    IN IF ~r.ok THEN Fail
       ELSE IF At(text, r.pos, P("]")) THEN Done(List(Append(acc, r.val)), r.pos + 1)
       ELSE IF At(text, r.pos, P(",")) THEN ParseElems(text, r.pos + 1, Append(acc, r.val))
       ELSE Fail

\* json.loads(text): one value and nothing after it ("Extra data" otherwise).
json_loads(text) ==
    LET r == ParseValue(text, 1)
    IN IF r.ok /\ r.pos = Len(text) + 1 THEN r ELSE Fail

\* --------------------------------------------------------- decision records

EntryFull ==
    Obj([ sade_zone_id |-> Str("ZONE-001"), pilot_id |-> Str("PILOT-7"),
          organization_id |-> Str("ORG-3"), drone_id |-> Str("DRONE-9"),
          payload |-> Num("2"), requested_entry_time |-> Str("2025-01-01T10:00"),
          request_type |-> Str("ZONE") ])

EnvFull ==
    Obj([ manufacturer_fc |-> Obj([ manufacturer |-> Str("Acme"), model |-> Str("X1"),
                                    category |-> Str("small"),
                                    mfc_payload_max_kg |-> Num("5"),
                                    mfc_max_wind_kt |-> Num("20") ]),
          raw_conditions |-> Obj([ wind |-> Num("25"), wind_gust |-> Num("31"),
                                   precipitation |-> Str("rain"), visibility |-> Num("3"),
                                   light_conditions |-> Str("day"),
                                   spatial_constraints |-> Obj([airspace_class |-> Str("G")]) ]),
          risk_assessment |-> Obj([ risk_level |-> Str("HIGH"),
                                    blocking_factors |-> List(<< Str("wind over limit") >>),
                                    marginal_factors |-> List(<<>>) ]),
          recommendation_wind |-> Str("high"),
          recommendation_payload |-> Str("LOW"),
          constraint_suggestions_wind |-> List(<< Str("max wind 20 kt") >>),
          constraint_suggestions_payload |-> List(<<>>),
          recommendation_prose_wind |-> Str("Do not fly."),
          recommendation_prose_payload |-> Str("Payload is fine."),
          why_prose_wind |-> Str("Wind exceeds the limit."),
          why_prose_payload |-> Str("2 kg of 5 kg.") ])

IncidentOpen ==
    Obj([ incident_code |-> Str("0100-001"), incident_category |-> Str("airspace"),
          incident_subcategory |-> Str("incursion"), severity |-> Str("Medium"),
          resolved |-> Bool(FALSE), date |-> Str("2024-06-01") ])

RepFull ==
    Obj([ incident_analysis |-> Obj([ incidents |-> List(<< IncidentOpen >>),
                                      total_incidents |-> Num("1"),
                                      recent_incidents_count |-> Num("1"),
                                      unresolved_incidents_present |-> Bool(TRUE) ]),
          risk_assessment |-> Obj([ risk_level |-> Str("MEDIUM"),
                                    blocking_factors |-> List(<<>>),
                                    confidence_factors |-> List(<< Str("12 sessions") >>) ]),
          drp_sessions_count |-> Num("12"),
          demo_steady_max_kt |-> Num("18"), demo_gust_max_kt |-> Num("24"),
          n_0100_0101 |-> Num("1"),
          recommendation |-> Str("low"),
          recommendation_prose |-> Str("Acceptable."),
          why_prose |-> Str("One open incident.") ])

ClaimsCalled ==
    Obj([ called |-> Bool(TRUE), satisfied |-> Bool(FALSE),
          resolved_incident_prefixes |-> List(<<>>),
          unresolved_incident_prefixes |-> List(<< Str("0100") >>),
          satisfied_actions |-> List(<<>>),
          unsatisfied_actions |-> List(<< Str("upload certificate") >>),
          recommendation_prose |-> Str("Follow up."),
          why_prose |-> Str("Incident 0100 is open.") ])

\* called is false while every other field of the section is filled in.
ClaimsSkipped == Put(Put(ClaimsCalled, "called", Bool(FALSE)), "satisfied", Bool(TRUE))

VisFull ==
    Obj([ entry_request |-> EntryFull, environment_agent |-> EnvFull,
          reputation_agent |-> RepFull, claims_agent |-> ClaimsCalled,
          rule_trace |-> List(<< Str("R1 fired"), Str("R7 fired") >>) ])

DecDenied ==
    Obj([ type |-> Str("DENIED"), sade_message |-> Str("Entry denied."),
          denial_code |-> Str("ENV-001"), explanation |-> Str("Wind is above the limit.") ])

DecApproved ==
    Obj([ type |-> Str("APPROVED"), sade_message |-> Str("Entry approved."),
          explanation |-> Str("All checks passed.") ])

DecConstraints ==
    Obj([ type |-> Str("APPROVED-CONSTRAINTS"), sade_message |-> Str("Approved with limits."),
          constraints |-> List(<< Str("max altitude 100 m") >>) ])

DecAction ==
    Obj([ type |-> Str("ACTION-REQUIRED"), sade_message |-> Str("Action required."),
          actions |-> List(<< Str("upload certificate") >>) ])

Rec(dec, vis) == Obj([decision |-> dec, visibility |-> vis])

\* A record with every field of the contract present.
CompleteRecord ==
    Rec(Put(Put(DecDenied, "constraints", List(<< Str("max altitude 100 m") >>)),
            "actions", List(<< Str("upload certificate") >>)),
        VisFull)

\* x with the keys of ks removed from every dict in it.
RECURSIVE Without(_, _)
Without(x, ks) ==
    CASE x.t = "obj"  -> Obj([k \in DOMAIN x.v \ ks |-> Without(x.v[k], ks)])
      [] x.t = "list" -> List([i \in 1..Len(x.v) |-> Without(x.v[i], ks)])
      [] OTHER        -> x

\* The JSON objects in which fields are absent: the complete record without
\* up to MaxAbsent of its keys, wherever they occur.
KeySet == { KeyOrder[i] : i \in 1..Len(KeyOrder) }

RECURSIVE KeySetsUpTo(_)
KeySetsUpTo(n) ==
    IF n = 0 THEN { {} }
    ELSE LET smaller == KeySetsUpTo(n - 1)
         IN smaller \cup { ks \cup {k} : ks \in smaller, k \in KeySet }

\* The keys of the two top-level sections and of the sections of visibility.
SectionKeys == { "decision", "visibility", "entry_request", "environment_agent",
                 "reputation_agent", "claims_agent", "rule_trace" }

\* The complete record without any subset of its sections, and without up to
\* MaxAbsent of its keys.
SparseRecords ==
    { Without(CompleteRecord, ss) : ss \in SUBSET SectionKeys }
    \cup { Without(CompleteRecord, ks) : ks \in KeySetsUpTo(MaxAbsent) }

\* Records whose claims section has called false: the other fields of the
\* section filled in, with satisfied false, or with a field of the wrong
\* shape, each without any subset of those fields.
ClaimsFields == { "satisfied", "resolved_incident_prefixes", "unresolved_incident_prefixes",
                  "satisfied_actions", "unsatisfied_actions",
                  "recommendation_prose", "why_prose" }

SkippedSections ==
    { Without(c, ks) :
        c \in { ClaimsSkipped,
                Put(ClaimsSkipped, "satisfied", Bool(FALSE)),
                Put(Put(ClaimsSkipped, "satisfied_actions", Num("7")), "why_prose", Null) },
        ks \in SUBSET ClaimsFields }

SkippedRecords == { Rec(DecApproved, Put(VisFull, "claims_agent", c)) : c \in SkippedSections }

\* Records with a denial code that is a string, empty, null or on a decision
\* of another type, with and without an explanation and the agents' sections.
DenialRecords ==
    { Rec(Put(Put(d, "denial_code", c), "explanation", e), vis) :
        d \in { DecDenied, DecApproved },
        c \in { Str("ENV-001"), Str("REP-7"), Str(""), Null },
        e \in { Str("Wind is above the limit."), Str("") },
        vis \in { VisFull, EmptyObj } }

\* Records that differ in the risk level of the environment agent alone: the
\* three levels, another case, an unknown level, empty, null, numbers.
RiskLevels == { Str("LOW"), Str("MEDIUM"), Str("HIGH"), Str("low"), Str("SEVERE"), Str(""),
                Null, Num("0"), Num("5") }

RiskRecord(level) ==
    Rec(DecApproved,
        Obj([environment_agent |-> Obj([risk_assessment |-> Obj([risk_level |-> level])])]))

RiskRecords ==
    { RiskRecord(level) : level \in RiskLevels }
    \cup { Rec(DecApproved, Obj([environment_agent |-> Obj([risk_assessment |-> EmptyObj])])) }

\* Records whose fields, where present, have the shape of the contract.
ValidRecords == <<
    Rec(DecDenied, VisFull),
    Rec(DecApproved, Put(VisFull, "claims_agent", ClaimsSkipped)),
    Rec(DecConstraints, Del(VisFull, "claims_agent")),
    Rec(DecAction, EmptyObj),
    EmptyObj,
    Obj([visibility |-> Obj([claims_agent |-> Obj([called |-> Bool(TRUE)]),
                             environment_agent |-> Obj([risk_assessment |-> EmptyObj])])]),
    Obj([decision |-> Obj([type |-> Str("REVIEW")]),
         visibility |-> Obj([claims_agent |-> EmptyObj, reputation_agent |-> Obj([drp_sessions_count |-> Num("0")]),
                             entry_request |-> Obj([zone_id |-> Str("ZONE-002"), org_id |-> Str("ORG-4")])])]),
    Obj([decision |-> EmptyObj,
         visibility |-> Obj([entry_request |-> Put(Put(EntryFull, "zone_id", Str("ZONE-OLD")),
                                                   "org_id", Str("ORG-OLD"))])])
>>

\* Records that are JSON objects with a field of an unexpected shape.
MalformedRecords == <<
    Obj([decision |-> Null, visibility |-> VisFull]),
    Rec(DecApproved, Null),
    Rec(Obj([type |-> List(<< Str("DENIED") >>)]), VisFull),
    Rec(Obj([type |-> Num("5")]), EmptyObj),
    Rec(Obj([type |-> Null]), Obj([claims_agent |-> Obj([called |-> Null])])),
    Rec(DecDenied, Obj([claims_agent |-> Null])),
    Rec(DecDenied, Obj([entry_request |-> Null])),
    Rec(DecApproved, Obj([environment_agent |-> Obj([risk_assessment |-> Obj([risk_level |-> Num("5")])])])),
    Rec(DecApproved, Obj([entry_request |-> EntryFull,
                          environment_agent |-> Null,
                          reputation_agent |-> Put(RepFull, "recommendation", List(<< Str("LOW") >>))])),
    Rec(DecAction, Obj([claims_agent |-> Put(ClaimsCalled, "satisfied_actions", Num("7"))])),
    Rec(DecApproved, Obj([reputation_agent |-> Obj([incident_analysis |-> Obj([incidents |-> Str("no")])])])),
    Rec(Put(DecConstraints, "constraints", Num("3")), Put(VisFull, "claims_agent", ClaimsSkipped)),
    Rec(Put(DecDenied, "explanation", Num("0")),
        Obj([environment_agent |-> Obj([risk_assessment |-> Obj([risk_level |-> Num("0"),
                                                                  blocking_factors |-> Str("no")])]),
             rule_trace |-> Str("")]))
>>

AllRecords == ValidRecords \o MalformedRecords

\* The records of the files the window is given: the valid ones, one that
\* loads although a field is no string, and three on which the load stops
\* half-way (in the diagram before and after the decision node is colored,
\* and in the second tab builder).
Records ==
    SubSeq(ValidRecords, 1, 5)
    \o << ValidRecords[7], MalformedRecords[4], MalformedRecords[3], MalformedRecords[2], MalformedRecords[8] >>

\* ---------------------------------------------------------------- documents

\* The free text main.py writes before the JSON object, n lexemes long.
Header(n) == [i \in 1..n |-> W("FINAL DECISION")]

File(text) == [text |-> text]

DropLast(q) == SubSeq(q, 1, Len(q) - 1)

\* Each record in a file of its own, under headers of every length in turn,
\* and the first record also under every header.
RecordDocuments ==
    [r \in 1..Len(Records) |-> File(Header(r % (MaxHeaderLen + 1)) \o Dumps(Records[r]))]
    \o [n \in 1..(MaxHeaderLen + 1) |-> File(Header(n - 1) \o Dumps(Records[1]))]

\* The files that hold no record: an empty file and free text alone (no
\* brace); a truncated object, an object followed by more text, a header with
\* a brace in it and two objects (not one JSON value from the first brace on).
BrokenDocuments ==
    << File(<<>>),
       File(Header(MaxHeaderLen + 1)),
       File(Header(MaxHeaderLen) \o DropLast(Dumps(Records[1]))),
       File(Dumps(Records[2]) \o << W("END") >>),
       File(<< W("Constraints:"), P("{"), W("x"), P("}") >> \o Dumps(Records[1])),
       File(Dumps(Records[2]) \o Dumps(Records[1])) >>

Documents == RecordDocuments \o BrokenDocuments

\* ------------------------------------------------------------------- window

VARIABLES
    nodes,         \* ArchitectureDiagram.nodes: active, status, color of each node
    hovered,       \* ArchitectureDiagram._hovered: a node id or "none"
    size,          \* <<width, height>> of the diagram widget
    views,         \* DetailTabs._views: the HTML of the five tabs
    currentIndex,  \* DetailTabs.currentIndex()
    statusBar,     \* the message of the status bar: <<kind, detail>>
    record,        \* history: the data of the load shown, Null when none is
    before,        \* history: what the load or clear before the last one did
    node_clicked,  \* history: the tab indices the last event emitted on node_clicked
    input,         \* the input drawn by a specification of one operation, else Null
    painted,       \* history: what the last paintEvent drew, in the order drawn
    output         \* SpecClip: what the operation returned on input, else Null

vars == << nodes, hovered, size, views, currentIndex, statusBar, record, before,
          node_clicked, input, painted, output >>

\* setMinimumSize(300, 480)
MinimumSize == << 300, 480 >>

\* Pointer positions: columns across the width, rows at each node's centre line.
PointerXs(Wd) == { (k * Wd) \div GridSteps : k \in 0..GridSteps }
PointerYs(Ht) == { (NODES_DEF[n].ry * Ht) \div 1000 : n \in NodeSet }

\* What the status bar says the last load or clear did.
BarKind == CASE statusBar[1] = "Loaded"   -> "loaded"
             [] statusBar[1] = "Cleared." -> "clear"
             [] OTHER                     -> "other"

\* SADEWindow.__init__ without an initial file.
NewWindow ==
    /\ nodes = NewNodes
    /\ hovered = "none"
    /\ size = MinimumSize
    /\ views = NewViews
    /\ currentIndex = 0
    /\ statusBar = << "No result loaded", "" >>
    /\ record = Null
    /\ before = "other"
    /\ node_clicked = << >>
    /\ painted = << >>

Init == NewWindow /\ input = Null /\ output = Null

\* A variant that takes text it cannot decode for an empty record.
Decode_lenient(doc) ==
    LET json_start == find_brace(doc.text)
        decoded == json_loads(SubSeq(doc.text, json_start, Len(doc.text)))
    IN IF json_start = 0 \/ ~decoded.ok THEN [error |-> "", data |-> EmptyObj]
       ELSE [error |-> "", data |-> decoded.val]

\* find and json.loads of SADEWindow._load_file on the text of a file: the
\* error raised ("" when none) and the data.
Decode(doc) ==
    LET json_start == find_brace(doc.text)
        decoded == json_loads(SubSeq(doc.text, json_start, Len(doc.text)))
    IN IF json_start = 0 THEN [error |-> "nobrace", data |-> Null]
       ELSE IF ~decoded.ok THEN [error |-> "badjson", data |-> Null]
       ELSE [error |-> "", data |-> decoded.val]

\* The try block of SADEWindow._load_file on a decoded file, built the results
\* of the tab builders on its data: the outcome ("ok", or where the exception
\* was raised), and the nodes and views it leaves.
LoadFile(ns, vs, dec, built) ==
    LET dn == Diagram_load_result(ns, dec.data)
        t  == Tabs_load_result(vs, built)
    IN IF dec.error # "" THEN [outcome |-> dec.error, nodes |-> ns, views |-> vs]
       ELSE IF dn.raised THEN [outcome |-> "diagram", nodes |-> dn.nodes, views |-> vs]
       ELSE IF t.raised THEN [outcome |-> t.at, nodes |-> dn.nodes, views |-> t.views]
       ELSE [outcome |-> "ok", nodes |-> dn.nodes, views |-> t.views]

\* SADEWindow._load_file (from the preset combo, Browse, or the command line).
LoadStep(dec, built) ==
    LET r == LoadFile(nodes, views, dec, built)
    IN /\ nodes' = r.nodes
       /\ views' = r.views
       /\ IF r.outcome = "ok"
          THEN /\ statusBar' = << "Loaded",
                                  PyStr(dict_get(get_obj(dec.data, "decision"), "type", Str("?"))) >>
               /\ currentIndex' = 4
               /\ record' = dec.data
          ELSE /\ statusBar' = << "Error loading", r.outcome >>
               /\ UNCHANGED << currentIndex, record >>
       /\ before' = BarKind
       /\ node_clicked' = << >>
       /\ UNCHANGED << hovered, size, painted, output >>

\* The decoded form and the built tabs of each document, computed once.
Decoded == [d \in 1..Len(Documents) |-> Decode(Documents[d])]
Built   == [d \in 1..Len(Documents) |-> BuildAll(Decoded[d].data)]

_load_file(d) == LoadStep(Decoded[d], Built[d]) /\ UNCHANGED input

\* A variant that also goes back to the first tab.
_on_clear_first_tab ==
    /\ nodes' = Diagram_clear(nodes)
    /\ views' = Tabs_clear(views)
    /\ statusBar' = << "Cleared.", "" >>
    /\ record' = Null
    /\ before' = BarKind
    /\ node_clicked' = << >>
    /\ currentIndex' = 0
    /\ UNCHANGED << hovered, size, input, painted, output >>

\* SADEWindow._on_clear
_on_clear ==
    /\ nodes' = Diagram_clear(nodes)
    /\ views' = Tabs_clear(views)
    /\ statusBar' = << "Cleared.", "" >>
    /\ record' = Null
    /\ before' = BarKind
    /\ node_clicked' = << >>
    /\ UNCHANGED << hovered, size, currentIndex, input, painted, output >>

\* A variant whose slot leaves the selected tab alone.
_on_node_clicked_ignored(cur, emitted) == cur

\* SADEWindow._on_node_clicked, the slot of node_clicked: one call per signal.
RECURSIVE _on_node_clicked(_, _)
_on_node_clicked(cur, emitted) ==
    IF emitted = <<>> THEN cur ELSE _on_node_clicked(Head(emitted), Tail(emitted))

\* ArchitectureDiagram.mousePressEvent with the left button at (x, y).
mousePressEvent(x, y) ==
    /\ node_clicked' = ClickAt(size[1], size[2], x, y)
    /\ currentIndex' = _on_node_clicked(currentIndex, node_clicked')
    /\ UNCHANGED << nodes, hovered, size, views, statusBar, record, before, input,
                    painted, output >>

\* ArchitectureDiagram.mouseMoveEvent at (x, y).
mouseMoveEvent(x, y) ==
    /\ hovered' = HoverAt(size[1], size[2], x, y)
    /\ node_clicked' = << >>
    /\ UNCHANGED << nodes, size, views, currentIndex, statusBar, record, before, input,
                    painted, output >>

\* ArchitectureDiagram.leaveEvent
leaveEvent ==
    /\ hovered' = "none"
    /\ node_clicked' = << >>
    /\ UNCHANGED << nodes, size, views, currentIndex, statusBar, record, before, input,
                    painted, output >>

Load   == \E d \in 1..Len(Documents) : _load_file(d)
Clear  == _on_clear
Click  == \E x \in PointerXs(size[1]), y \in PointerYs(size[2]) : mousePressEvent(x, y)
Move   == \E x \in PointerXs(size[1]), y \in PointerYs(size[2]) : mouseMoveEvent(x, y)
Leave  == leaveEvent

Next == Load \/ Clear \/ Click \/ Move \/ Leave

Spec == Init /\ [][Next]_vars

\* ------------------------------------------------- one load of any record

\* A new window is given one file, written from any record of the model: a
\* record of AllRecords, the complete record with fields absent, or a record
\* whose claims section was skipped.
Inputs ==
    { AllRecords[i] : i \in 1..Len(AllRecords) } \cup SparseRecords \cup { EmptyObj }
    \cup SkippedRecords \cup DenialRecords \cup RiskRecords

InitLoadOnce == NewWindow /\ input \in Inputs /\ output = Null

Opened == statusBar[1] # "No result loaded"

LoadInput ==
    /\ ~Opened
    /\ LET dec == Decode(File(Header(MaxHeaderLen) \o Dumps(input)))
       IN LoadStep(dec, BuildAll(dec.data))
    /\ UNCHANGED input

SpecLoadOnce == InitLoadOnce /\ [][LoadInput]_vars

\* ------------------------------------------------------- files and clear

\* The window is given files and cleared; the pointer stays out of it.
SpecFiles == Init /\ [][Load \/ Clear]_vars

\* Files are loaded, the window is cleared and the diagram is clicked, with the
\* pointer never moved over it.
SpecPanels == Init /\ [][Load \/ Clear \/ Click]_vars

\* --------------------------------------------- pointer events and viewports

\* Sizes the splitter can give the diagram: its minimum, one with odd sides
\* and a wide one.
Viewports == { MinimumSize, << 451, 613 >>, << 800, 780 >> }

\* The layout resizes the diagram (size policy Expanding); no handler runs.
resizeEvent(s) ==
    /\ size' = s
    /\ node_clicked' = << >>
    /\ UNCHANGED << nodes, hovered, views, currentIndex, statusBar, record, before, input,
                    painted, output >>

Resize == \E s \in Viewports : resizeEvent(s)

\* SADEWindow.__init__ with document d as initial_file: the window after the
\* load of d into the new window.
NewWindowWith(d) ==
    LET r == LoadFile(NewNodes, NewViews, Decoded[d], Built[d])
    IN /\ nodes = r.nodes
       /\ views = r.views
       /\ hovered = "none"
       /\ IF r.outcome = "ok"
          THEN /\ statusBar = << "Loaded",
                                 PyStr(dict_get(get_obj(Decoded[d].data, "decision"),
                                                "type", Str("?"))) >>
               /\ currentIndex = 4
               /\ record = Decoded[d].data
          ELSE /\ statusBar = << "Error loading", r.outcome >>
               /\ currentIndex = 0
               /\ record = Null
       /\ before = "other"
       /\ node_clicked = << >>
       /\ painted = << >>

\* The files a window is started with: a denied record whose claims agent was
\* called, and an approved one whose claims agent was not.
InitialFiles == { 1, 2 }

\* A window of any size, started without a file or with one, receives pointer
\* events.
InitViewport ==
    /\ size \in Viewports
    /\ input = Null
    /\ output = Null
    /\ \/ (nodes = NewNodes /\ hovered = "none" /\ views = NewViews /\ currentIndex = 0
            /\ statusBar = << "No result loaded", "" >> /\ record = Null
            /\ before = "other" /\ node_clicked = << >> /\ painted = << >>)
       \/ \E d \in InitialFiles : NewWindowWith(d)

SpecViewport == InitViewport /\ [][Click \/ Move \/ Leave \/ Resize]_vars

\* ------------------------------------------------------------------ painting

\* _draw_nodes: one rounded rectangle per node in the iteration order of
\* self.nodes, with the color of its fill, the color and width of its border,
\* and the status text drawn on it (Null when node.status is falsy).
_draw_nodes(ns, hov) ==
    [ i \in 1..Len(NodeIds) |->
        LET nid    == NodeIds[i]
            node   == ns[nid]
            active == node.active
            lit    == nid = hov /\ NODES_DEF[nid].tab_idx >= 0
        IN  [ op     |-> "node",
              id     |-> nid,
              fill   |-> IF active THEN node.color ELSE CARD_BG,
              border |-> IF lit THEN (IF active THEN "lighter " \o node.color ELSE ACCENT)
                         ELSE IF active THEN node.color ELSE BORDER,
              pen_w  |-> IF active \/ nid = hov THEN 2 ELSE 1,
              status |-> IF Truthy(node.status) THEN node.status ELSE Null ] ]

\* One line per edge of EDGES, in order, in the pen of _draw_edges.
EdgeLines(ns) ==
    [ e \in 1..Len(EDGES) |->
        [ op |-> "edge", from |-> EDGES[e].from, to |-> EDGES[e].to,
          color |-> _draw_edges(ns)[e], dashed |-> EDGES[e].dashed ] ]

\* A variant that draws the nodes before the edges.
Painting_nodes_first(ns, hov, Wd, Ht) ==
    << [ op |-> "fillRect", w |-> Wd, h |-> Ht, color |-> PANEL_BG ] >>
    \o _draw_nodes(ns, hov) \o EdgeLines(ns)

\* What paintEvent draws on a widget of Wd by Ht pixels, in the order drawn:
\* the background, the edges, the nodes.
Painting(ns, hov, Wd, Ht) ==
    << [ op |-> "fillRect", w |-> Wd, h |-> Ht, color |-> PANEL_BG ] >>
    \o EdgeLines(ns) \o _draw_nodes(ns, hov)

\* ArchitectureDiagram.paintEvent: it reads the nodes, the hover key and the
\* size of the widget and assigns to none of them.
paintEvent ==
    /\ painted' = Painting(nodes, hovered, size[1], size[2])
    /\ node_clicked' = << >>
    /\ UNCHANGED << nodes, hovered, size, views, currentIndex, statusBar, record, before,
                    input, output >>

Paint == paintEvent

\* A window of any size, started without a file or with one, is painted,
\* resized and moved over.
SpecPaint == InitViewport /\ [][Paint \/ Resize \/ Move \/ Leave]_vars

\* ----------------------------------------------------------------- geometry

(***************************************************************************)
(* Python float: IEEE 754 binary64, round to nearest, ties to even.        *)
(* A float is [s, m, e] with value s * m * 2^e: s the sign (-1, 0, 1), m   *)
(* the 53-bit significand as a natural number, e the exponent.  Naturals   *)
(* wider than the checker's integers are sequences of base-2^15 limbs,     *)
(* least significant first, without leading zero limbs.  Exponents stay in *)
(* the normal range for the coordinates drawn below, so overflow,          *)
(* subnormals, infinities and NaN do not occur; -0.0 is not told from 0.0  *)
(* (Python compares them equal).                                           *)
(***************************************************************************)
LimbBits == 15
LimbBase == 32768
Significand == 53

Pow2(k) == << 1, 2, 4, 8, 16, 32, 64, 128, 256, 512, 1024, 2048, 4096, 8192, 16384,
              32768 >>[k + 1]

NatNorm(a) ==
    LET used == { i \in 1..Len(a) : a[i] # 0 }
    IN  IF used = { } THEN << >>
        ELSE SubSeq(a, 1, CHOOSE i \in used : \A j \in used : j <= i)

\* a Python int up to 2^30 as a natural
NatOf(n) ==
    IF n = 0 THEN << >>
    ELSE IF n < LimbBase THEN << n >>
    ELSE << n % LimbBase, n \div LimbBase >>

Limb(a, i)  == IF i <= Len(a) THEN a[i] ELSE 0
Rest(a)     == IF a = << >> THEN << >> ELSE Tail(a)

RECURSIVE NatAddC(_, _, _)
NatAddC(a, b, c) ==
    IF a = << >> /\ b = << >>
    THEN IF c = 0 THEN << >> ELSE << c >>
    ELSE LET x == Limb(a, 1) + Limb(b, 1) + c
         IN  << x % LimbBase >> \o NatAddC(Rest(a), Rest(b), x \div LimbBase)

NatAdd(a, b) == NatAddC(a, b, 0)

\* a - b for a >= b
RECURSIVE NatSubB(_, _, _)
NatSubB(a, b, c) ==
    IF a = << >> THEN << >>
    ELSE LET x == a[1] - Limb(b, 1) - c
         IN  IF x < 0 THEN << x + LimbBase >> \o NatSubB(Tail(a), Rest(b), 1)
                      ELSE << x >> \o NatSubB(Tail(a), Rest(b), 0)

NatSub(a, b) == NatNorm(NatSubB(a, b, 0))

\* -1, 0, 1 as a < b, a = b, a > b
NatCmp(a, b) ==
    IF Len(a) < Len(b) THEN -1
    ELSE IF Len(a) > Len(b) THEN 1
    ELSE LET differ == { i \in 1..Len(a) : a[i] # b[i] }
             top    == CHOOSE i \in differ : \A j \in differ : j <= i
         IN  IF differ = { } THEN 0 ELSE IF a[top] < b[top] THEN -1 ELSE 1

\* a * k + c for a limb-sized k
RECURSIVE NatMulSmall(_, _, _)
NatMulSmall(a, k, c) ==
    IF a = << >> THEN NatOf(c)
    ELSE LET x == a[1] * k + c
         IN  << x % LimbBase >> \o NatMulSmall(Tail(a), k, x \div LimbBase)

NatShiftLimb(a) == IF a = << >> THEN << >> ELSE << 0 >> \o a

RECURSIVE NatMul(_, _)
NatMul(a, b) ==
    IF a = << >> \/ b = << >> THEN << >>
    ELSE NatAdd(NatNorm(NatMulSmall(b, a[1], 0)), NatShiftLimb(NatMul(Tail(a), b)))

BitsOf(n) == Cardinality({ k \in 0..(LimbBits - 1) : Pow2(k) <= n })

BitLen(a) == IF a = << >> THEN 0 ELSE LimbBits * (Len(a) - 1) + BitsOf(a[Len(a)])

Bit(a, i) == (Limb(a, (i \div LimbBits) + 1) \div Pow2(i % LimbBits)) % 2

\* a * 2^k
NatShl(a, k) ==
    IF a = << >> THEN << >>
    ELSE [ i \in 1..(k \div LimbBits) |-> 0 ] \o NatNorm(NatMulSmall(a, Pow2(k % LimbBits), 0))

\* floor(a / 2^k)
NatShr(a, k) ==
    LET d == SubSeq(a, (k \div LimbBits) + 1, Len(a))
        p == Pow2(k % LimbBits)
    IN  NatNorm([ i \in 1..Len(d) |-> (d[i] \div p) + (Limb(d, i + 1) % p) * (LimbBase \div p) ])

\* One correction of a digit of a long division: qp is << q, q * d >>, and q
\* is one too large when q * d is more than r.
NatDivCorrect(qp, r, d) ==
    IF NatCmp(qp[2], r) > 0 THEN << qp[1] - 1, NatSub(qp[2], d) >> ELSE qp

\* The quotient of the top limbs of r and d, at most LimbBase - 1.
NatDivGuess(r, d) ==
    CHOOSE q1 \in { IF q0 > LimbBase - 1 THEN LimbBase - 1 ELSE q0 :
                       q0 \in { (Limb(r, 5) * LimbBase + Limb(r, 4)) \div d[4] } } : TRUE

\* One digit of a long division: << q, r - q * d >> with q = floor(r / d), for
\* r < d * LimbBase and a d of four limbs whose top limb is at least
\* LimbBase / 2.  The quotient of the top limbs is q, q + 1 or q + 2.
NatDivDigit(r, d) ==
    CHOOSE qr \in
        { << qp[1], NatSub(r, qp[2]) >> :
            qp \in { NatDivCorrect(NatDivCorrect(<< q1, NatNorm(NatMulSmall(d, q1, 0)) >>, r, d),
                                   r, d) :
                        q1 \in { NatDivGuess(r, d) } } } : TRUE

\* << floor(n / d), n mod d >> by long division, the limbs i .. 1 of n still to
\* bring down; q holds the digits found, least significant first
RECURSIVE NatDivFrom(_, _, _, _, _)
NatDivFrom(n, d, i, q, r) ==
    IF i = 0 THEN << NatNorm(q), r >>
    ELSE CHOOSE qr \in { NatDivFrom(n, d, i - 1, << digit[1] >> \o q, digit[2]) :
                            digit \in { NatDivDigit(NatNorm(<< n[i] >> \o r), d) } } : TRUE

NatDivMod(n, d) == NatDivFrom(n, d, Len(n), << >>, << >>)

FloatZero == [ s |-> 0, m |-> << >>, e |-> 0 ]

\* Whether m / 2^k, whose floor is q, is rounded up: the bit below the cut is
\* set, and a bit below that one or the last bit of q is.
RoundUp(m, k, q) ==
    Bit(m, k - 1) = 1 /\ (NatShl(NatShr(m, k - 1), k - 1) # m \/ Bit(q, 0) = 1)

\* s * m * 2^e for an m of 53 + k bits, k > 0, rounded
RoundOff(s, m, e, k) ==
    CHOOSE f \in
        { IF BitLen(r) > Significand
          THEN [ s |-> s, m |-> NatShr(r, 1), e |-> e + k + 1 ]
          ELSE [ s |-> s, m |-> r, e |-> e + k ] :
            r \in { IF RoundUp(m, k, q) THEN NatAdd(q, << 1 >>) ELSE q :
                       q \in { NatShr(m, k) } } } : TRUE

\* s * m * 2^e rounded to a 53-bit significand, ties to even
RoundToFloat(s, m, e) ==
    IF s = 0 \/ m = << >> THEN FloatZero
    ELSE CHOOSE f \in
            { IF len <= Significand
              THEN [ s |-> s, m |-> NatShl(m, Significand - len), e |-> e - (Significand - len) ]
              ELSE RoundOff(s, m, e, len - Significand) :
                len \in { BitLen(m) } } : TRUE

\* float(n) for a Python int n
float(n) == RoundToFloat(IF n < 0 THEN -1 ELSE IF n = 0 THEN 0 ELSE 1,
                         NatOf(IF n < 0 THEN -n ELSE n), 0)

float_neg(a) == [ a EXCEPT !.s = -a.s ]

\* The significand of a at the exponent e <= a.e
Aligned(a, e) == NatShl(a.m, a.e - e)

\* Sign and size << s, m >> of sa * ma + sb * mb, neither sign 0
SignedSum(sa, ma, sb, mb) ==
    IF sa = sb THEN << sa, NatAdd(ma, mb) >>
    ELSE CHOOSE sm \in
            { IF c = 0 THEN << 0, << >> >>
              ELSE IF c > 0 THEN << sa, NatSub(ma, mb) >>
              ELSE << sb, NatSub(mb, ma) >> :
                c \in { NatCmp(ma, mb) } } : TRUE

\* The sum of two floats.
FloatSum(a, b) ==
    IF a.s = 0 THEN b
    ELSE IF b.s = 0 THEN a
    ELSE CHOOSE f \in
            { RoundToFloat(sm[1], sm[2], e) :
                sm \in { SignedSum(a.s, ma, b.s, mb) :
                            ma \in { Aligned(a, IF a.e < b.e THEN a.e ELSE b.e) },
                            mb \in { Aligned(b, IF a.e < b.e THEN a.e ELSE b.e) } },
                e \in { IF a.e < b.e THEN a.e ELSE b.e } } : TRUE

\* -1, 0, 1 as a < b, a = b, a > b
FloatCmp(a, b) ==
    IF a.s # b.s THEN (IF a.s < b.s THEN -1 ELSE 1)
    ELSE IF a.s = 0 THEN 0
    ELSE a.s * NatCmp(Aligned(a, IF a.e < b.e THEN a.e ELSE b.e),
                      Aligned(b, IF a.e < b.e THEN a.e ELSE b.e))

\* The product of two floats.
FloatProduct(a, b) == RoundToFloat(a.s * b.s, NatMul(a.m, b.m), a.e + b.e)

\* The quotient of two floats, the divisor not 0.  Both significands are shifted to 60 bits (four full
\* limbs) and a.m by four limbs more, so the quotient a.m * 2^60 / b.m has 60
\* or 61 bits; one more bit below it is set when the division left a remainder.
FloatQuotient(a, b) ==
    IF a.s = 0 THEN FloatZero
    ELSE CHOOSE f \in
            { RoundToFloat(a.s * b.s,
                           NatNorm(NatMulSmall(qr[1], 2, IF qr[2] = << >> THEN 0 ELSE 1)),
                           a.e - b.e - 4 * LimbBits - 1) :
                qr \in { NatDivMod(NatShl(a.m, 4 * LimbBits + 7), NatShl(b.m, 7)) } } : TRUE

\* a + b, a - b, a * b, a / b, a < b, a <= b and a == b of Python on floats:
\* both operands are evaluated, then the operation is applied to their values.
float_add(a, b)     == CHOOSE r \in { FloatSum(x, y) : x \in { a }, y \in { b } } : TRUE
float_sub(a, b)     == CHOOSE r \in { FloatSum(x, float_neg(y)) : x \in { a }, y \in { b } } : TRUE
float_mul(a, b)     == CHOOSE r \in { FloatProduct(x, y) : x \in { a }, y \in { b } } : TRUE
float_truediv(a, b) == CHOOSE r \in { FloatQuotient(x, y) : x \in { a }, y \in { b } } : TRUE
float_lt(a, b)      == CHOOSE r \in { FloatCmp(x, y) < 0  : x \in { a }, y \in { b } } : TRUE
float_le(a, b)      == CHOOSE r \in { FloatCmp(x, y) <= 0 : x \in { a }, y \in { b } } : TRUE
float_eq(a, b)      == CHOOSE r \in { FloatCmp(x, y) = 0  : x \in { a }, y \in { b } } : TRUE

\* QPointF(x, y) and QRectF(x, y, w, h) of Qt, their coordinates stored as
\* doubles; QRectF.center() is QPointF(xp + w/2, yp + h/2).
QPointF(x, y) == [ x |-> x, y |-> y ]
QRectF(x, y, w, h) == [ xp |-> x, yp |-> y, w |-> w, h |-> h ]
center(rect) == QPointF(float_add(rect.xp, float_truediv(rect.w, float(2))),
                        float_add(rect.yp, float_truediv(rect.h, float(2))))

\* The test of a side of _clip_to_rect, t the parameter at the side and v the
\* other coordinate there: c - h <= v <= c + h and t > 0, for the
\* centre c and the half extent h of the other axis.  The list appended to
\* t_candidates.
Kept(t, v, c, h) ==
    IF /\ float_le(float_sub(c, h), v)
       /\ float_le(v, float_add(c, h))
       /\ float_lt(float(0), t)
    THEN << t >> ELSE << >>

\* One turn of a loop of _clip_to_rect, for the side at c + sign * h of an
\* axis on which the line starts at s0 and advances by d, starting at o0 and
\* advancing by od on the other axis, whose centre and half extent are oc, oh.
Side(sign, c, h, s0, d, oc, oh, o0, od) ==
    IF d.s = 0 THEN << >>
    ELSE CHOOSE ts \in
            { Kept(t, float_add(o0, float_mul(t, od)), oc, oh) :
                t \in { float_truediv(
                            float_sub(float_add(c, float_mul(float(sign), h)), s0), d) } } : TRUE

\* The two loops of _clip_to_rect on the values of its locals.
Sides(src, cx, cy, hw, hh, dx, dy) ==
    [ i \in 1..4 |->
        IF i <= 2 THEN Side(2 * i - 3, cx, hw, src.x, dx, cy, hh, src.y, dy)
                  ELSE Side(2 * i - 7, cy, hh, src.y, dy, cx, hw, src.x, dx) ]

\* t_candidates of _clip_to_rect: the parameters kept, in the order appended
\* (the sides at cx - hw, cx + hw, cy - hh, cy + hh).
t_candidates(src, dst, rect) ==
    CHOOSE ts \in
        { side[1] \o side[2] \o side[3] \o side[4] :
            side \in { Sides(src, c.x, c.y, hw, hh, dx, dy) :
                          c  \in { center(rect) },
                          hw \in { float_truediv(rect.w, float(2)) },
                          hh \in { float_truediv(rect.h, float(2)) },
                          dx \in { float_sub(dst.x, src.x) },
                          dy \in { float_sub(dst.y, src.y) } } } : TRUE

\* min(t_candidates) of a list that is not empty
RECURSIVE float_min(_)
float_min(ts) ==
    IF Len(ts) = 1 THEN ts[1]
    ELSE CHOOSE least \in { IF float_lt(m, ts[1]) THEN m ELSE ts[1] :
                                m \in { float_min(Tail(ts)) } } : TRUE

\* QPointF(src.x() + t_min * dx, src.y() + t_min * dy)
point_at(src, dst, t_min) ==
    QPointF(float_add(src.x, float_mul(t_min, float_sub(dst.x, src.x))),
            float_add(src.y, float_mul(t_min, float_sub(dst.y, src.y))))

\* The result of _clip_to_rect for a line that is not a point, on the list ts
\* of t_candidates.
Clipped(src, dst, ts) == IF ts = << >> THEN src ELSE point_at(src, dst, float_min(ts))

\* A variant that falls back to the far end of the line.
_clip_to_rect_to_dst(src, dst, rect) ==
    CHOOSE p \in { IF ts = << >> THEN dst ELSE Clipped(src, dst, ts) :
                      ts \in { t_candidates(src, dst, rect) } } : TRUE

\* ArchitectureDiagram._clip_to_rect
_clip_to_rect(src, dst, rect) ==
    IF float_sub(dst.x, src.x).s = 0 /\ float_sub(dst.y, src.y).s = 0 THEN src
    ELSE CHOOSE p \in { Clipped(src, dst, ts) : ts \in { t_candidates(src, dst, rect) } } : TRUE

\* The coordinates lines are clipped at: 0 and the powers of 7 up to 7^MaxPow,
\* of either sign.
RECURSIVE Pow7(_)
Pow7(k) == IF k = 0 THEN 1 ELSE 7 * Pow7(k - 1)
Coords == { 0 } \cup { Pow7(k) : k \in 0..MaxPow } \cup { -Pow7(k) : k \in 0..MaxPow }

\* Rectangles << x, y, w, h >>: a square and two oblongs, all with whole
\* centres, and an empty one.
ClipRects == { << -1, -1, 2, 2 >>, << 6, -8, 2, 14 >>, << -7, -1, 14, 2 >>, << 0, 0, 0, 0 >> }

\* Where a line starts: at the centre of the rectangle, at (1, 0) (on the
\* square's boundary) or at (7, 7).
ClipSources(r) == { << r[1] + r[3] \div 2, r[2] + r[4] \div 2 >>, << 1, 0 >>, << 7, 7 >> }

ClipInputs ==
    { [ src |-> s, dst |-> d, rect |-> r ] :
        s \in UNION { ClipSources(q) : q \in ClipRects }, d \in Coords \X Coords, r \in ClipRects }

PointOf(p) == QPointF(float(p[1]), float(p[2]))
RectOf(r)  == QRectF(float(r[1]), float(r[2]), float(r[3]), float(r[4]))

InitClip == NewWindow /\ input \in ClipInputs /\ output = Null

\* One call of _clip_to_rect, as _draw_edges makes for each end of an edge.
Clip ==
    /\ output = Null
    /\ output' = _clip_to_rect(PointOf(input.src), PointOf(input.dst), RectOf(input.rect))
    /\ UNCHANGED << nodes, hovered, size, views, currentIndex, statusBar, record, before,
                    node_clicked, input, painted >>

SpecClip == InitClip /\ [][Clip]_vars

\* --------------------------------------------------------------- properties

\* What a load of data shows in a window that has shown nothing yet.
FreshNodes(data) == Diagram_load_result(NewNodes, data).nodes
FreshViews(data) == Tabs_load_result(NewViews, BuildAll(data)).views

\* The places of the files that hold no record in Documents.
BrokenIndexes == (Len(RecordDocuments) + 1)..Len(Documents)

\* The steps that run _load_file on some file.
LoadsSomeFile == \E d \in 1..Len(Documents) : _load_file(d)

Tokens(html) == { html[i] : i \in 1..Len(html) }

Colors == { PANEL_BG, CARD_BG, BORDER, TXT_HI, TXT_MED, TXT_LO, ACCENT, C_ORCHSTR, C_ENTRY,
            C_ENV, C_REP, C_CLAIMS, C_DECISION, C_APPROVED, C_APPROVEDC, C_ACTION,
            C_DENIED, C_UNKNOWN }

\* The opening tokens of a badge, of a section and of a list item.
BadgeTokens   == { "<span badge background:" \o c \o ">" : c \in Colors }
SectionTokens == { "<div section>" }
ItemTokens    == { "<div item color:" \o c \o ">" : c \in Colors }

\* C1: a load of a file with no brace in it, or whose text from the first
\* brace on is not valid JSON, ends in an error shown in the status bar and
\* leaves every node, all five panels and the selected panel as they were,
\* whether a record was shown before or not.
C1_BrokenFileLeavesViewState ==
    [][ (\E d \in BrokenIndexes : _load_file(d))
        => /\ statusBar'[1] = "Error loading"
           /\ statusBar'[2] \in {"nobrace", "badjson"}
           /\ UNCHANGED << nodes, views, currentIndex >> ]_vars

\* A file that is not valid JSON was refused while a record is shown.
C1_Witness ==
    /\ statusBar = << "Error loading", "badjson" >>
    /\ record # Null
    /\ nodes["decision"].active
    /\ views[4] # Placeholder

\* C2: in every reachable state the diagram and the five panels show the same
\* thing: both the empty presentation, or both the record of the last load
\* that succeeded; a load that ends in an error leaves neither the diagram
\* nor some of the panels updated.
C2_DiagramAndPanelsAgree ==
    IF record = Null
    THEN nodes = NewNodes /\ views = NewViews
    ELSE nodes = FreshNodes(record) /\ views = FreshViews(record)

\* C3: a clear followed by a load of a record gives every node the active
\* flag, status and color that a load of the record gives in a new window.
C3_ClearThenLoadIsFresh ==
    (statusBar[1] = "Loaded" /\ before = "clear") => nodes = FreshNodes(record)

\* A record with a denial was loaded right after a clear.
C3_Witness ==
    /\ statusBar[1] = "Loaded"
    /\ before = "clear"
    /\ nodes["decision"].color = C_DENIED
    /\ nodes["claims"].active

\* C4: a load while a record is shown replaces it whole: the nodes and the
\* five panels are those a load of the new record gives in a new window.
C4_LoadReplaces ==
    (statusBar[1] = "Loaded" /\ before = "loaded")
    => nodes = FreshNodes(record) /\ views = FreshViews(record)

\* A record whose claims agent was not called was loaded over another record.
C4_Witness ==
    /\ statusBar[1] = "Loaded"
    /\ before = "loaded"
    /\ nodes["decision"].status = Str("APPROVED")
    /\ ~nodes["claims"].active
    /\ views[3] = ClaimsNotCalled

\* C5: after a load that succeeds no node is hovered, whichever node was
\* hovered before the load.
C5_LoadResetsHover ==
    [][ (LoadsSomeFile /\ statusBar'[1] = "Loaded") => hovered' = "none" ]_vars

\* C6: a JSON object in which sections or fields are absent, the empty object
\* included, loads without an error: the status bar says Loaded, the record
\* shown is the one written to the file, the diagram is lit, and each of the
\* five panels holds what its builder makes of the record; for the empty
\* object the agent panels hold their "no data" text.
C6_AbsentFieldsLoad ==
    (Opened /\ input \in SparseRecords \cup { EmptyObj })
    => /\ statusBar[1] = "Loaded"
       /\ record = input
       /\ \A n \in NodeSet \ {"claims"} : nodes[n].active
       /\ \A i \in 0..4 : /\ ~TAB_BUILDERS(i, input).raised
                           /\ views[i] = TAB_BUILDERS(i, input).html
                           /\ views[i] # Placeholder
       /\ input = EmptyObj
          => views[1] = NoEnvData /\ views[2] = NoRepData /\ views[3] = NoClaimsData

\* The empty object was loaded.
C6_Witness ==
    /\ Opened
    /\ input = EmptyObj
    /\ statusBar = << "Loaded", "?" >>
    /\ nodes["decision"].color = C_UNKNOWN
    /\ views[3] = NoClaimsData

\* C7: for a file that holds a JSON object, whatever the shape of its fields,
\* no panel builder raises: no load ends in an error raised by a builder.
C7_NoBuilderRaises ==
    statusBar[1] = "Error loading" => statusBar[2] \notin { "tab" \o ToString(i) : i \in 0..4 }

\* C8: after a load that succeeds the nodes entry, orch, env, rep and
\* decision are active; claims is active exactly when the called flag of the
\* claims section is true; the status of the decision node is the decision
\* type and its color is the one of that type, the unknown color when the
\* type is another one or absent; every other node has an empty status.
C8_LoadedDiagram ==
    statusBar[1] = "Loaded"
    => LET dec    == dict_get(record, "decision", EmptyObj)
           dtype  == dict_get(dec, "type", Str(""))
           ca     == dict_get(dict_get(record, "visibility", EmptyObj), "claims_agent", EmptyObj)
           called == dict_get(ca, "called", Bool(FALSE))
       IN /\ \A n \in {"entry", "orch", "env", "rep", "decision"} : nodes[n].active
          /\ nodes["claims"].active <=> (called = Bool(TRUE))
          /\ nodes["decision"].status = dtype
          /\ nodes["decision"].color =
                CASE dtype = Str("APPROVED")             -> C_APPROVED
                  [] dtype = Str("APPROVED-CONSTRAINTS") -> C_APPROVEDC
                  [] dtype = Str("ACTION-REQUIRED")      -> C_ACTION
                  [] dtype = Str("DENIED")               -> C_DENIED
                  [] OTHER                               -> C_UNKNOWN
          /\ \A n \in NodeSet \ {"decision"} : nodes[n].status = Str("")

\* A record approved with constraints and without a claims section is shown.
C8_Witness ==
    /\ statusBar[1] = "Loaded"
    /\ nodes["decision"].status = Str("APPROVED-CONSTRAINTS")
    /\ nodes["decision"].color = C_APPROVEDC
    /\ ~nodes["claims"].active
    /\ nodes["orch"].active

\* C9: after a clear, from any state, the window is empty: every node is
\* inactive, has no status and has the color it was made with, and each of
\* the five panels shows the placeholder.
C9_ClearGivesEmpty ==
    statusBar[1] = "Cleared."
    => /\ \A n \in NodeSet : /\ ~nodes[n].active
                              /\ nodes[n].status = Str("")
                              /\ nodes[n].color = NODES_DEF[n].color
       /\ \A i \in 0..4 : views[i] = Placeholder
       /\ record = Null

\* A window that showed a record was cleared.
C9_Witness ==
    /\ statusBar[1] = "Cleared."
    /\ before = "loaded"
    /\ currentIndex = 4
    /\ nodes["decision"].color = C_DECISION

\* The claims section of record r, and whether its called flag is false.
ClaimsSection(r) == dict_get(dict_get(r, "visibility", EmptyObj), "claims_agent", EmptyObj)
CalledFalse(r) == dict_get(ClaimsSection(r), "called", Null) = Bool(FALSE)

\* C10: for a record whose claims section has called false, whatever else the
\* section holds, the claims panel is the "not called" text, with no badge,
\* no section and no list item in it.
C10_NotCalledPanel ==
    (Opened /\ CalledFalse(input) /\ (statusBar[1] = "Loaded" \/ statusBar[2] = "tab4"))
    => /\ views[3] = ClaimsNotCalled
       /\ "Claims Agent was not called for this request." \in Tokens(views[3])
       /\ Tokens(views[3]) \cap (BadgeTokens \cup SectionTokens \cup ItemTokens \cup {"Status"}) = {}

\* A record was loaded whose skipped claims section holds a number where a
\* list belongs.
C10_Witness ==
    /\ statusBar[1] = "Loaded"
    /\ CalledFalse(input)
    /\ dict_get(ClaimsSection(input), "satisfied_actions", Null) = Num("7")
    /\ dict_get(ClaimsSection(input), "satisfied", Null) = Bool(TRUE)
    /\ views[3] = ClaimsNotCalled

\* The record shown is approved and its claims agent was not called.
ApprovedNotCalled ==
    /\ statusBar[1] = "Loaded"
    /\ dict_get(dict_get(record, "decision", EmptyObj), "type", Null) = Str("APPROVED")
    /\ CalledFalse(record)

\* C11: while a record with type APPROVED and called false is shown, a left
\* click at any point inside the rectangle of the claims node emits
\* node_clicked with index 3 and selects the claims panel, which shows the
\* "not called" text.
C11_ClickInsideClaims ==
    [][ \A x \in PointerXs(size[1]), y \in PointerYs(size[2]) :
          ( /\ ApprovedNotCalled
            /\ ~nodes["claims"].active
            /\ InRect("claims", size[1], size[2], x, y)
            /\ mousePressEvent(x, y) )
          => /\ node_clicked' = << 3 >>
             /\ currentIndex' = 3
             /\ views'[3] = ClaimsNotCalled ]_vars

\* Whether the tokens q occur in html one after the other.
ContainsSeq(html, q) ==
    \E i \in 0..(Len(html) - Len(q)) : SubSeq(html, i + 1, i + Len(q)) = q

\* The decision of the one file loaded, its denial code and explanation.
InputDecision    == dict_get(input, "decision", EmptyObj)
InputDenialCode  == dict_get(InputDecision, "denial_code", Null)
InputExplanation == dict_get(InputDecision, "explanation", Str(""))

\* The title of the Denial section, and its Code row with code c in a badge.
DenialTitle == << "<div title color:" \o ACCENT \o ">", "Denial", "</div>" >>
DenialRow(c) ==
    << "<div row>", "<span key color:" \o TXT_MED \o ">", "Code", "</span>",
       "<span badge background:" \o C_DENIED \o ">", c, "</span>", "</div>" >>

\* C12: for a loaded record with type DENIED and a non-empty denial code c
\* the decision panel has a Denial section whose Code row is a badge with
\* exactly c, it holds the explanation text as it is in the record, and the
\* status of the decision node is DENIED; for any loaded record the Denial
\* section is there exactly when the denial code is present and not empty.
C12_DenialSection ==
    (Opened /\ statusBar[1] = "Loaded" /\ IsObj(input))
    => /\ ContainsSeq(views[4], DenialTitle)
          <=> (InputDenialCode # Null /\ InputDenialCode # Str(""))
       /\ ( /\ dict_get(InputDecision, "type", Null) = Str("DENIED")
            /\ IsStr(InputDenialCode) /\ InputDenialCode.v # "" )
          => /\ ContainsSeq(views[4], DenialTitle \o DenialRow(InputDenialCode.v))
             /\ nodes["decision"].status = Str("DENIED")
             /\ (IsStr(InputExplanation) /\ InputExplanation.v # "")
                => ContainsSeq(views[4], << "<div prose color:" \o TXT_HI \o ">",
                                            InputExplanation.v, "</div>" >>)

\* A denied record with code REP-7 and no agent sections was loaded.
C12_Witness ==
    /\ statusBar = << "Loaded", "DENIED" >>
    /\ InputDenialCode = Str("REP-7")
    /\ InputExplanation = Str("Wind is above the limit.")
    /\ ContainsSeq(views[4], DenialRow("REP-7"))
    /\ views[1] = NoEnvData

\* The record written to document d of RecordDocuments, and the file that
\* holds that JSON object alone, decoded and built once.
RecordOf(d) == IF d <= Len(Records) THEN Records[d] ELSE Records[1]
DecodedAlone == [d \in 1..Len(RecordDocuments) |-> Decode(File(Dumps(RecordOf(d))))]
BuiltAlone   == [d \in 1..Len(RecordDocuments) |-> BuildAll(DecodedAlone[d].data)]

IsValidRecord(r) == \E i \in 1..Len(ValidRecords) : ValidRecords[i] = r

\* C13: a load decodes the text from the first brace on and ignores what is
\* before it: a file with a header without a brace and then one JSON object
\* leaves the nodes and panels that a load of the object alone leaves, and
\* succeeds for every valid record; a file with no brace, or whose text from
\* the first brace to the end is not one JSON value, ends in the error.
C13_HeaderIgnored ==
    [][ \A d \in 1..Len(Documents) :
          _load_file(d)
          => IF d <= Len(RecordDocuments)
             THEN LET alone == LoadFile(nodes, views, DecodedAlone[d], BuiltAlone[d])
                  IN /\ nodes' = alone.nodes
                     /\ views' = alone.views
                     /\ (statusBar'[1] = "Loaded") <=> (alone.outcome = "ok")
                     /\ IsValidRecord(RecordOf(d))
                        => statusBar'[1] = "Loaded" /\ record' = RecordOf(d)
             ELSE /\ statusBar'[1] = "Error loading"
                  /\ statusBar'[2] = (IF \E i \in 1..Len(Documents[d].text) :
                                             Documents[d].text[i] = P("{")
                                      THEN "badjson" ELSE "nobrace") ]_vars

\* The third record, which is only in a file with a header, is shown.
C13_Witness ==
    /\ statusBar = << "Loaded", "APPROVED-CONSTRAINTS" >>
    /\ record = Records[3]
    /\ Head(Documents[3].text) = W("FINAL DECISION")
    /\ views[4] # Placeholder

\* The risk level of the environment agent in the one file loaded.
InputRiskLevel ==
    dict_get(dict_get(dict_get(dict_get(input, "visibility", EmptyObj),
                               "environment_agent", EmptyObj),
                      "risk_assessment", EmptyObj),
             "risk_level", Str(""))

\* C14: the color of a risk badge is defined for every level and never
\* raises: LOW, MEDIUM and HIGH (in any case) have three different colors,
\* and every other level - empty, absent, unknown, of another type - has the
\* one unknown color, different from the three.
C14_RiskColorTotal ==
    (Opened /\ input \in RiskRecords)
    => /\ Cardinality({ C_APPROVED, C_APPROVEDC, C_DENIED, C_UNKNOWN }) = 4
       /\ statusBar[1] = "Loaded"
       /\ ContainsSeq(views[1],
             << "Overall Risk", "</span>",
                "<span badge background:"
                \o (CASE InputRiskLevel \in { Str("LOW"), Str("low") } -> C_APPROVED
                      [] InputRiskLevel = Str("MEDIUM")                -> C_APPROVEDC
                      [] InputRiskLevel = Str("HIGH")                  -> C_DENIED
                      [] OTHER                                         -> C_UNKNOWN)
                \o ">" >>)

\* C15: for every record that loads, with a type that is known, unknown or
\* absent, the color of the decision node is the color of the type in the
\* header of the decision panel and of the border of its message.
C15_NodeAndPanelColor ==
    (Opened /\ statusBar[1] = "Loaded")
    => /\ ContainsSeq(views[4], << "<div header>",
                                   "<div type color:" \o nodes["decision"].color \o ">" >>)
       /\ "<div message border-left:" \o nodes["decision"].color \o ">" \in Tokens(views[4])
       /\ Cardinality({ t \in Tokens(views[4]) :
                          t \in { "<div type color:" \o c \o ">" : c \in Colors } }) = 1

\* A record without a decision type was loaded: node and header are in the
\* unknown color, the header reads UNKNOWN and the node has no status.
C15_Witness ==
    /\ statusBar = << "Loaded", "?" >>
    /\ nodes["decision"].color = C_UNKNOWN
    /\ nodes["decision"].status = Str("")
    /\ ContainsSeq(views[4], << "<div type color:" \o C_UNKNOWN \o ">", "UNKNOWN" >>)
    /\ input # EmptyObj

\* The place of node n in iteration order, and whether n is the first node in
\* that order whose rectangle holds the point (x, y).
Place(n) == CHOOSE i \in 1..Len(NodeIds) : NodeIds[i] = n
FirstUnder(n, x, y) ==
    /\ InRect(n, size[1], size[2], x, y)
    /\ \A m \in NodeSet : Place(m) < Place(n) => ~InRect(m, size[1], size[2], x, y)

\* C16: on a left click the first node in iteration order whose rectangle
\* holds the pointer decides: with a panel index, node_clicked is emitted
\* once with that index; without one (orch), nothing is emitted; a click
\* outside every node emits nothing; no click emits more than once.
C16_FirstNodeDecides ==
    [][ \A x \in PointerXs(size[1]), y \in PointerYs(size[2]) :
          mousePressEvent(x, y)
          => /\ Len(node_clicked') <= 1
             /\ \A n \in NodeSet :
                   FirstUnder(n, x, y)
                   => node_clicked' = (IF NODES_DEF[n].tab_idx >= 0
                                       THEN << NODES_DEF[n].tab_idx >> ELSE << >>)
             /\ (\A n \in NodeSet : ~InRect(n, size[1], size[2], x, y))
                => node_clicked' = << >>
             /\ FirstUnder("orch", x, y) => currentIndex' = currentIndex ]_vars

\* In the wide diagram a click emitted the index of the env node.
C16_Witness ==
    /\ size = << 800, 780 >>
    /\ node_clicked = << 1 >>
    /\ currentIndex = 1

\* Whether the rectangles of nodes n and m in a Wd x Ht diagram share a point.
Overlap(n, m, Wd, Ht) ==
    LET a == NODES_DEF[n]
        b == NODES_DEF[m]
    IN /\ (a.rx - a.rw) * Wd <= (b.rx + b.rw) * Wd /\ (b.rx - b.rw) * Wd <= (a.rx + a.rw) * Wd
       /\ (a.ry - a.rh) * Ht <= (b.ry + b.rh) * Ht /\ (b.ry - b.rh) * Ht <= (a.ry + a.rh) * Ht

\* C17: in a diagram of any width and height the rectangles of the six nodes
\* do not overlap one another, so that the pointer of any move or press is
\* inside at most one of them.
C17_RectanglesDisjoint ==
    [][ \A x \in PointerXs(size[1]), y \in PointerYs(size[2]) :
          (mouseMoveEvent(x, y) \/ mousePressEvent(x, y))
          => /\ Cardinality({ n \in NodeSet : InRect(n, size[1], size[2], x, y) }) <= 1
             /\ \A n, m \in NodeSet : n # m => ~Overlap(n, m, size[1], size[2]) ]_vars

\* The place of the edge from orch to claims in EDGES.
ClaimsEdge == CHOOSE e \in 1..Len(EDGES) : EDGES[e].from = "orch" /\ EDGES[e].to = "claims"

\* C18: in every state an edge is drawn in the lit color exactly when both of
\* its end nodes are active, and in the muted color otherwise: after a clear
\* all five edges are muted; while a record with called true is shown all five
\* are lit; while one with called false is shown the edge from orch to claims
\* alone is muted.
C18_EdgeColors ==
    /\ EDGE_LIT # TXT_LO
    /\ Len(EDGES) = 5
    /\ \A e \in 1..Len(EDGES) :
          /\ _draw_edges(nodes)[e] \in { EDGE_LIT, TXT_LO }
          /\ _draw_edges(nodes)[e] = EDGE_LIT
             <=> (nodes[EDGES[e].from].active /\ nodes[EDGES[e].to].active)
    /\ statusBar[1] = "Cleared." => \A e \in 1..Len(EDGES) : _draw_edges(nodes)[e] = TXT_LO
    /\ (statusBar[1] = "Loaded" /\ dict_get(ClaimsSection(record), "called", Null) = Bool(TRUE))
       => \A e \in 1..Len(EDGES) : _draw_edges(nodes)[e] = EDGE_LIT
    /\ (statusBar[1] = "Loaded" /\ CalledFalse(record))
       => \A e \in 1..Len(EDGES) : _draw_edges(nodes)[e] = TXT_LO <=> e = ClaimsEdge

\* A record with called false is shown: the edge to claims is muted, the edge
\* to decision is lit.
C18_Witness ==
    /\ statusBar[1] = "Loaded"
    /\ CalledFalse(record)
    /\ _draw_edges(nodes)[ClaimsEdge] = TXT_LO
    /\ _draw_edges(nodes)[5] = EDGE_LIT
    /\ before = "loaded"

\* C19: after the pointer leaves, no node is hovered, whatever was before;
\* after the pointer moves, the hovered node is the first in iteration order
\* whose rectangle holds the pointer, or none when no rectangle does; neither
\* event changes a node, a panel or the selected panel.
C19_HoverFollowsPointer ==
    [][ /\ leaveEvent
           => hovered' = "none" /\ UNCHANGED << nodes, views, currentIndex, statusBar, record >>
        /\ \A x \in PointerXs(size[1]), y \in PointerYs(size[2]) :
              mouseMoveEvent(x, y)
              => /\ \A n \in NodeSet : FirstUnder(n, x, y) => hovered' = n
                 /\ (\A n \in NodeSet : ~InRect(n, size[1], size[2], x, y))
                    => hovered' = "none"
                 /\ UNCHANGED << nodes, views, currentIndex, statusBar, record >> ]_vars

\* The pointer is over the orch node of a window that shows a record.
C19_Witness ==
    /\ hovered = "orch"
    /\ statusBar[1] = "Loaded"
    /\ nodes["orch"].active
    /\ views[0] # Placeholder
    /\ size = << 451, 613 >>

\* C20: a click on a node changes the selected panel to the index emitted and
\* nothing else: whether a record is shown, the nodes and the contents of the
\* five panels stay as they are (no builder runs); a click that emits nothing
\* changes nothing.
C20_ClickSelectsOnly ==
    [][ \A x \in PointerXs(size[1]), y \in PointerYs(size[2]) :
          mousePressEvent(x, y)
          => /\ UNCHANGED << nodes, views, statusBar, record, hovered, size >>
             /\ node_clicked' = << >> => currentIndex' = currentIndex
             /\ \A i \in 0..4 : node_clicked' = << i >> => currentIndex' = i
             /\ node_clicked' \in { << >> } \cup { << i >> : i \in 0..4 } ]_vars

\* The inactive claims node of a window that shows a record was clicked: the
\* claims panel is selected.
C20_Witness ==
    /\ node_clicked = << 3 >>
    /\ currentIndex = 3
    /\ statusBar[1] = "Loaded"
    /\ ~nodes["claims"].active
    /\ views[3] = ClaimsNotCalled

\* C21: every index emitted on node_clicked is in 0..4 and, after any
\* sequence of loads, failed loads, clears, hovers and clicks, so is the
\* selected panel index: the -1 of the orch node never reaches it.
C21_IndexInRange ==
    /\ currentIndex \in 0..4
    /\ \A k \in 1..Len(node_clicked) : node_clicked[k] \in 0..4

\* A click on the entry node selected panel 0 after a load had selected
\* panel 4.
C21_Witness ==
    /\ node_clicked = << 0 >>
    /\ currentIndex = 0
    /\ statusBar[1] = "Loaded"


\* The rectangle and the line of input in whole numbers: the sides, the start
\* and the direction.
ClipLeft   == input.rect[1]
ClipRight  == input.rect[1] + input.rect[3]
ClipTop    == input.rect[2]
ClipBottom == input.rect[2] + input.rect[4]
ClipDx     == input.dst[1] - input.src[1]
ClipDy     == input.dst[2] - input.src[2]

\* The line from the start crosses the side x = bx at a parameter t > 0 and at
\* a height between the top and the bottom (t = (bx - sx) / dx, compared after
\* multiplying by dx).
CrossesX(bx) ==
    LET n == (bx - input.src[1]) * ClipDy
        lo == (ClipTop - input.src[2]) * ClipDx
        hi == (ClipBottom - input.src[2]) * ClipDx
    IN  /\ ClipDx # 0
        /\ (bx - input.src[1]) * ClipDx > 0
        /\ IF ClipDx > 0 THEN lo <= n /\ n <= hi ELSE hi <= n /\ n <= lo

CrossesY(by) ==
    LET n == (by - input.src[2]) * ClipDx
        lo == (ClipLeft - input.src[1]) * ClipDy
        hi == (ClipRight - input.src[1]) * ClipDy
    IN  /\ ClipDy # 0
        /\ (by - input.src[2]) * ClipDy > 0
        /\ IF ClipDy > 0 THEN lo <= n /\ n <= hi ELSE hi <= n /\ n <= lo

NoCrossing ==
    ~CrossesX(ClipLeft) /\ ~CrossesX(ClipRight) /\ ~CrossesY(ClipTop) /\ ~CrossesY(ClipBottom)

\* C22: _clip_to_rect returns its source unchanged, for every rectangle, when
\* source and destination are the same point, and whenever the line crosses no
\* side of the rectangle at a parameter t > 0 within the bounds of the other
\* axis (as from a source on or outside the boundary heading away).
C22_ClipFallsBackToSource ==
    (output # Null /\ (input.src = input.dst \/ NoCrossing))
    => output = PointOf(input.src)

\* A line from (1, 0), on the right side of the square, away to (7, 0).
C22_Witness ==
    /\ output # Null
    /\ input = [ src |-> << 1, 0 >>, dst |-> << 7, 0 >>, rect |-> << -1, -1, 2, 2 >> ]
    /\ NoCrossing
    /\ output = PointOf(<< 1, 0 >>)


\* The line of input starts at the centre of its rectangle.
FromCentre ==
    /\ 2 * input.src[1] = ClipLeft + ClipRight
    /\ 2 * input.src[2] = ClipTop + ClipBottom

\* The point p lies on the boundary of the rectangle of input: on its left or
\* right side between top and bottom, or on its top or bottom side between
\* left and right (comparisons of floats, which are exact).
OnBoundary(p) ==
    \/ /\ p.x \in { float(ClipLeft), float(ClipRight) }
       /\ float_le(float(ClipTop), p.y) /\ float_le(p.y, float(ClipBottom))
    \/ /\ p.y \in { float(ClipTop), float(ClipBottom) }
       /\ float_le(float(ClipLeft), p.x) /\ float_le(p.x, float(ClipRight))

\* C23: a line clipped from the centre of the rectangle toward any other point
\* ends exactly on the boundary of the rectangle: |x - cx| = hw with
\* |y - cy| <= hh, or |y - cy| = hh with |x - cx| <= hw.
C23_ClipOnBoundary ==
    (output # Null /\ FromCentre /\ input.dst # input.src) => OnBoundary(output)


\* _normalize_visibility of main.py, which parse_orchestrator_output applies to
\* the orchestrator's answer before the result file is written: the record
\* with zone_id and org_id of the entry request renamed to sade_zone_id and
\* organization_id where the canonical key is absent.  (On a visibility that
\* is no dict main.py raises; the record is returned as it is here.)
_normalize_visibility(parsed) ==
    LET v     == dict_get(parsed, "visibility", Null)
        vis   == IF Truthy(v) THEN v ELSE EmptyObj
        e     == dict_get(vis, "entry_request", Null)
        entry == IF Truthy(e) THEN e ELSE EmptyObj
        zoned == IF "zone_id" \in DOMAIN entry.v /\ "sade_zone_id" \notin DOMAIN entry.v
                 THEN Put(Del(entry, "zone_id"), "sade_zone_id", entry.v["zone_id"])
                 ELSE entry
        orged == IF "org_id" \in DOMAIN zoned.v /\ "organization_id" \notin DOMAIN zoned.v
                 THEN Put(Del(zoned, "org_id"), "organization_id", zoned.v["org_id"])
                 ELSE zoned
    IN  IF ~IsObj(vis) \/ ~IsObj(entry) \/ ~Truthy(e) THEN parsed
        ELSE Put(parsed, "visibility", Put(vis, "entry_request", orged))

\* C24: legacy field names are canonicalized before the record is displayed:
\* the entry panel of a loaded record is the panel of the record with zone_id
\* and org_id renamed to sade_zone_id and organization_id (the canonical value
\* kept when both spellings are present).
C24_AliasesCanonicalized ==
    (Opened /\ statusBar[1] = "Loaded" /\ IsObj(input))
    => views[0] = build_entry_tab(_normalize_visibility(input)).html


\* The four decision types of the contract, and the type the claim has
\* presented for input: its own type when that is one of the four, else the
\* literal UNKNOWN.
DecisionTypes == { "APPROVED", "APPROVED-CONSTRAINTS", "ACTION-REQUIRED", "DENIED" }
PresentedType ==
    LET t == dict_get(InputDecision, "type", Null)
    IN  IF IsStr(t) /\ t.v \in DecisionTypes THEN t.v ELSE "UNKNOWN"

\* C25: the decision type presented for a loaded record is one of APPROVED,
\* APPROVED-CONSTRAINTS, ACTION-REQUIRED, DENIED, or the literal UNKNOWN when
\* the type of the record is absent or is none of the four, both in the header
\* of the decision panel and in the status text of the decision node, which so
\* show the same type.
C25_TypePresented ==
    (Opened /\ statusBar[1] = "Loaded")
    => /\ \E c \in Colors :
             ContainsSeq(views[4], << "<div header>", "<div type color:" \o c \o ">",
                                      PresentedType, "</div>" >>)
       /\ nodes["decision"].status = Str(PresentedType)


\* The section of input that panel i shows, the empty dict when it is absent.
InputVisibility == dict_get(input, "visibility", EmptyObj)
SectionShown(i) ==
    CASE i = 0 -> dict_get(InputVisibility, "entry_request", EmptyObj)
      [] i = 1 -> dict_get(InputVisibility, "environment_agent", EmptyObj)
      [] i = 2 -> dict_get(InputVisibility, "reputation_agent", EmptyObj)
      [] i = 3 -> dict_get(InputVisibility, "claims_agent", EmptyObj)
      [] i = 4 -> dict_get(input, "decision", EmptyObj)

\* The page holds one message and nothing else.
PlaceholderOnly(html) == \E m \in Tokens(html) : html = _wrap(<< m >>)

\* C26: for each of the five sections (entry request, environment, reputation,
\* claims, decision), when the section is absent or empty in the loaded
\* record, its panel is a single placeholder message and nothing else: neither
\* an empty panel nor sections filled with default rows.
C26_AbsentSectionPlaceholder ==
    (Opened /\ statusBar[1] = "Loaded" /\ IsObj(input))
    => \A i \in 0..4 : SectionShown(i) = EmptyObj => PlaceholderOnly(views[i])


\* In the picture p the five edges are drawn, and all of them before any of
\* the six nodes.
EdgesBeforeNodes(p) ==
    /\ Cardinality({ i \in 1..Len(p) : p[i].op = "edge" }) = Len(EDGES)
    /\ Cardinality({ i \in 1..Len(p) : p[i].op = "node" }) = Len(NodeIds)
    /\ \A i, j \in 1..Len(p) : (p[i].op = "edge" /\ p[j].op = "node") => i < j

\* C27: rendering has no effect on the model: a paint event, at any viewport
\* size, leaves the active flag, status and color of every node, the hover key,
\* the panel contents and the selected panel index unchanged (so any number of
\* paint events does), what it draws is determined by that state alone, and
\* within one paint all five edges are drawn before any node.
C27_PaintIsPure ==
    [][ painted' # painted
        => /\ UNCHANGED << nodes, hovered, size, views, currentIndex, statusBar, record >>
           /\ painted' = Painting(nodes', hovered', size'[1], size'[2])
           /\ EdgesBeforeNodes(painted') ]_vars

\* A loaded window, wide, the pointer over the reputation node, was painted.
C27_Witness ==
    /\ painted = Painting(nodes, hovered, size[1], size[2])
    /\ size = << 800, 780 >>
    /\ hovered = "rep"
    /\ statusBar[1] = "Loaded"
    /\ EdgesBeforeNodes(painted)


\* C28: every load that succeeds (the status bar says "Loaded") selects panel
\* 4, the decision panel, whatever panel was selected before; a load that
\* fails (the status bar says "Error loading") and a clear leave the selected
\* panel as it was, so the panel chosen by a click after a load is still the
\* selected one after a clear.
C28_LoadSelectsDecisionPanel ==
    [][ /\ \A d \in 1..Len(Documents) :
            _load_file(d) => currentIndex' = (IF statusBar'[1] = "Loaded" THEN 4
                                              ELSE currentIndex)
        /\ _on_clear => currentIndex' = currentIndex ]_vars

\* A window cleared while a panel chosen by a click, neither the first nor the
\* decision panel, was selected.
C28_Witness ==
    /\ statusBar[1] = "Cleared."
    /\ record = Null
    /\ currentIndex \in 1..3


\* The place in paint order of the node painted last, so on top, at the point
\* (x, y) of a Wd x Ht diagram, or 0 when no node is painted there.
TopmostAt(Wd, Ht, x, y) ==
    LET drawn == _draw_nodes(nodes, hovered)
        over  == { i \in 1..Len(drawn) : InRect(drawn[i].id, Wd, Ht, x, y) }
    IN IF over = {} THEN 0 ELSE CHOOSE i \in over : \A j \in over : j <= i

\* C29: the click target agrees with what is drawn: at every viewport size and
\* pointer position the node that decides a left click is the node painted
\* topmost at that point, so that the click emits the panel index of the
\* topmost node (nothing when that node has no panel) and never that of a node
\* covered there by another.
C29_ClickTargetIsTopmost ==
    [][ \A x \in PointerXs(size[1]), y \in PointerYs(size[2]) :
          mousePressEvent(x, y)
          => LET top == TopmostAt(size[1], size[2], x, y)
             IN  top # 0
                 => /\ FirstUnder(_draw_nodes(nodes, hovered)[top].id, x, y)
                    /\ node_clicked' =
                          (IF NODES_DEF[_draw_nodes(nodes, hovered)[top].id].tab_idx >= 0
                           THEN << NODES_DEF[_draw_nodes(nodes, hovered)[top].id].tab_idx >>
                           ELSE << >>) ]_vars


\* C30: in every state reached by loads, failed loads and clears, every node
\* other than the decision node has the color it was created with and an
\* empty status text; entry, orch, env, rep and decision are all active or all
\* inactive; and claims is never active while those five are inactive.
C30_DiagramShape ==
    /\ \A n \in NodeSet \ { "decision" } :
          /\ nodes[n].color = NODES_DEF[n].color
          /\ nodes[n].status = Str("")
    /\ \A n, m \in NodeSet \ { "claims" } : nodes[n].active = nodes[m].active
    /\ nodes["claims"].active => nodes["entry"].active

\* A load that failed after it had lit the nodes and colored the decision
\* node: every node is active, claims included, under an error message.
C30_Witness ==
    /\ statusBar[1] = "Error loading"
    /\ nodes["claims"].active
    /\ nodes["decision"].active
    /\ nodes["decision"].color # NODES_DEF["decision"].color

====
